---- MODULE Spec2Model ----
(***************************************************************************)
(* Verification model of components of the repository:                     *)
(*   - RateLimiter and rate_limit_dependency (app/core/security.py),       *)
(*   - SessionPersistence (app/utils/session_persistence.py),              *)
(*   - MemoryManager (utils/memory_manager.py),                            *)
(*   - the /ws endpoint (app/main.py), from an accepted connection,        *)
(*   - the backend application as a Python process: its modules, the       *)
(*     adapter of the partner agent (app/utils/ai_partner.py) and          *)
(*     POST /api/chat/ (app/api/chat.py),                                  *)
(*   - DemoLauncher (demo/start_demo.py),                                  *)
(*   - PersonaManager._parse_markdown_persona (utils/persona_manager.py),  *)
(*   - VectorStore.search (utils/vector_store.py),                         *)
(*   - the Tools Agent (agents/tools_agent.py),                            *)
(*   - the Partner Agent (agents/partner_agent.py),                        *)
(*   - the chunk-and-index pipeline (scripts/chunk_and_index.py).          *)
(* Each component has its own specifications (SpecRL; SpecSP and SpecSPOk; *)
(* SpecMM and SpecMMOk; SpecWS and SpecWSLive; SpecPY; SpecLA; SpecPP;     *)
(* SpecVS; SpecTA; SpecPA and SpecPALive; SpecCI); the variables of the    *)
(* other components stay at their initial values.                          *)
(***************************************************************************)
EXTENDS Integers, Sequences, FiniteSets, TLC

VARIABLES
    \* RateLimiter
    requests,       \* RateLimiter.requests: key -> list of request times
    now,            \* time.time(), in seconds
    window_log,     \* history: per key, the times of the allowed requests of the last RateWindow seconds
    denied_run,     \* history: per key, denials since the key's last allowed request (capped)
    rl_last,        \* history: the last rate_limit_dependency call and its outcome
    \* SessionPersistence
    session_index,  \* SessionPersistence._session_index: session id -> index entry
    index_file,     \* sessions/sessions_index.json
    session_files,  \* sessions/<id>.json, one per session id
    sp_now,         \* datetime.now() of the session store, in days
    sp_faults,      \* environment: the file operations that may still fail
    sp_last,        \* history: the last SessionPersistence call and its outcome
    \* MemoryManager
    sessions,       \* MemoryManager.sessions: session id -> ConversationSession
    current_session,        \* MemoryManager.current_session: <<>> for None, else <<session>>
    sessions_file,          \* memory/sessions.pkl
    current_session_file,   \* memory/current_session.json
    mm_now,         \* datetime.now() of the memory manager, in days
    mm_faults,      \* environment: the _save_memory calls that may still fail
    mm_last,        \* history: the last MemoryManager call and its outcome
    \* the /ws endpoint, one connection
    ws_conn,        \* the connection as the server's calls find it: "up" or "closed"
    ws_pc,          \* where websocket_endpoint is: receive, handle, finally, await_heartbeat, done
    ws_frame,       \* the text frame receive_text returned last
    ws_frames,      \* the number of frames the client has sent
    ws_sent,        \* the envelopes sent to the client, in order
    ws_wait,        \* seconds the current wait_for(receive_text) has waited
    ws_time,        \* seconds since the connection was accepted
    hb_pc,          \* the heartbeat task: sleep, ended or cancelled
    hb_wait,        \* seconds the heartbeat task has slept
    hb_cancel,      \* heartbeat_task.cancel() was called and not yet delivered
    ws_last,        \* history: the last step of the endpoint and the connection it found
    \* the backend application as a Python process
    sys_modules,    \* sys.modules: the modules of the application that are loaded
    py_last,        \* history: the last import, adapter call or request and its outcome
    \* DemoLauncher
    la_pc,          \* where run is: check, backend, sleep, health, frontend, loop, finally, exited
    la_handler,     \* signal_handler is running cleanup()
    la_processes,   \* DemoLauncher.processes: (name, process) pairs
    la_child,       \* the child processes: none, running, exited or killed
    la_i,           \* cleanup(): the index of the loop over self.processes
    la_ph,          \* cleanup(): at terminate() or in wait()
    la_wait,        \* seconds the current process.wait(timeout=5) has waited
    la_signals,     \* the number of signals delivered
    la_terminated,  \* history: the children terminate() was called on
    la_exit_called, \* history: signal_handler has called sys.exit(0)
    la_last,        \* history: the last step of the launcher
    \* PersonaManager
    pp_last,        \* history: the last persona document parsed and the PersonaInfo returned
    \* VectorStore
    vs_last,        \* history: the last search, the hits the collection returned and the result
    \* the Tools Agent
    ta_state,       \* the state dictionary of the workflow
    ta_node,        \* where the driver and the workflow are: input, agent, tools, END, raised
    ta_inputs,      \* the number of lines the user has entered
    ta_llm_calls,   \* the number of llm.invoke calls
    ta_last,        \* history: the last step, the node it left, the node it reached
    \* the Partner Agent
    pa_node,        \* idle, the node of the graph that runs next, or END
    pa_state,       \* the state of the workflow
    pa_trace,       \* history: the nodes that have run in the present chat, in order
    pa_failed,      \* history: the nodes in which a call failed in the present chat
    pa_stored,      \* history: the replies the present chat has recorded in memory
    pa_result,      \* what the last chat returned
    pa_chats,       \* the number of chats started
    \* the chunk-and-index pipeline
    ci_notes,       \* the notes directory
    ci_collection,  \* the chunks in the "notes" collection of the vector database
    ci_last         \* history: the last step, where main returned, the collection before

rlVars == <<requests, now, window_log, denied_run, rl_last>>
spVars == <<session_index, index_file, session_files, sp_now, sp_faults, sp_last>>
mmVars == <<sessions, current_session, sessions_file, current_session_file,
            mm_now, mm_faults, mm_last>>
wsVars == <<ws_conn, ws_pc, ws_frame, ws_frames, ws_sent, ws_wait, ws_time,
            hb_pc, hb_wait, hb_cancel, ws_last>>
pyVars == <<sys_modules, py_last>>
laVars == <<la_pc, la_handler, la_processes, la_child, la_i, la_ph, la_wait,
            la_signals, la_terminated, la_exit_called, la_last>>
ppVars == <<pp_last>>
vsVars == <<vs_last>>
taVars == <<ta_state, ta_node, ta_inputs, ta_llm_calls, ta_last>>
paVars == <<pa_node, pa_state, pa_trace, pa_failed, pa_stored, pa_result, pa_chats>>
ciVars == <<ci_notes, ci_collection, ci_last>>
vars == <<rlVars, spVars, mmVars, wsVars, pyVars, laVars, ppVars, vsVars, taVars, paVars, ciVars>>
\* the variables of the other components
notRL == <<spVars, mmVars, wsVars, pyVars, laVars, ppVars, vsVars, taVars, paVars, ciVars>>
notSP == <<rlVars, mmVars, wsVars, pyVars, laVars, ppVars, vsVars, taVars, paVars, ciVars>>
notMM == <<rlVars, spVars, wsVars, pyVars, laVars, ppVars, vsVars, taVars, paVars, ciVars>>
notWS == <<rlVars, spVars, mmVars, pyVars, laVars, ppVars, vsVars, taVars, paVars, ciVars>>
notPY == <<rlVars, spVars, mmVars, wsVars, laVars, ppVars, vsVars, taVars, paVars, ciVars>>
notLA == <<rlVars, spVars, mmVars, wsVars, pyVars, ppVars, vsVars, taVars, paVars, ciVars>>
notPP == <<rlVars, spVars, mmVars, wsVars, pyVars, laVars, vsVars, taVars, paVars, ciVars>>
notVS == <<rlVars, spVars, mmVars, wsVars, pyVars, laVars, ppVars, taVars, paVars, ciVars>>
notTA == <<rlVars, spVars, mmVars, wsVars, pyVars, laVars, ppVars, vsVars, paVars, ciVars>>
notPA == <<rlVars, spVars, mmVars, wsVars, pyVars, laVars, ppVars, vsVars, taVars, ciVars>>
notCI == <<rlVars, spVars, mmVars, wsVars, pyVars, laVars, ppVars, vsVars, taVars, paVars>>

EmptyMap == [x \in {} |-> x]

(***************************************************************************)
(* RateLimiter (security.py:132-168) and rate_limit_dependency (214-221)   *)
(***************************************************************************)
RateLimit == 100
RateWindow == 60
Keys == {"10.0.0.1", "10.0.0.2"}
HeavyKey == "10.0.0.1"
LightMax == 1
TickStep == 30
MaxTime == 60

\* variant of Prune that keeps a request exactly one window old (sensitivity of C6)
PruneWrong(reqs, t, window) == SelectSeq(reqs, LAMBDA r : t - r <= window)
\* security.py:157-160: keep the request times younger than the window
Prune(reqs, t, window) == SelectSeq(reqs, LAMBDA r : t - r < window)

\* variant of OverLimit that lets one more request through (sensitivity of C5)
OverLimitWrong(reqs, limit) == Len(reqs) > limit
\* security.py:163: the limit test on the pruned list
OverLimit(reqs, limit) == Len(reqs) >= limit

\* security.py:153-154: a key that was never seen has an empty list
RequestsOf(key) == IF key \in DOMAIN requests THEN requests[key] ELSE <<>>

\* RateLimiter.is_allowed(key, limit, window): the new list of the key and the answer
is_allowed(key, limit, window) ==
    LET pruned == Prune(RequestsOf(key), now, window)
    IN  IF OverLimit(pruned, limit)
        THEN [reqs |-> pruned, allowed |-> FALSE]
        ELSE [reqs |-> Append(pruned, now), allowed |-> TRUE]

\* the allowed requests of the key that lie in the rolling window ending at t
InWindow(log, t) == SelectSeq(log, LAMBDA r : t - r < RateWindow)

\* rate_limit_dependency: one HTTP request of client `key`
rate_limit_dependency(key) ==
    LET r == is_allowed(key, RateLimit, RateWindow)
        before == Len(window_log[key])
    IN  /\ requests' = [k \in DOMAIN requests \cup {key} |->
                            IF k = key THEN r.reqs ELSE requests[k]]
        /\ window_log' = [window_log EXCEPT ![key] =
                            IF r.allowed THEN Append(@, now) ELSE @]
        /\ denied_run' = [denied_run EXCEPT ![key] =
                            IF r.allowed THEN 0 ELSE IF @ < 2 THEN @ + 1 ELSE @]
        /\ rl_last' = [key |-> key, at |-> now,
                       status |-> IF r.allowed THEN 200 ELSE 429,
                       in_window |-> before,
                       denied_before |-> denied_run[key]]
        /\ UNCHANGED <<now, notRL>>

\* the clock advances
Tick ==
    /\ now + TickStep <= MaxTime
    /\ now' = now + TickStep
    /\ window_log' = [k \in Keys |-> InWindow(window_log[k], now')]
    /\ UNCHANGED <<requests, denied_run, rl_last, notRL>>

InitRL ==
    /\ requests = EmptyMap
    /\ now = 0
    /\ window_log = [k \in Keys |-> <<>>]
    /\ denied_run = [k \in Keys |-> 0]
    /\ rl_last = [key |-> "", at |-> 0, status |-> 0, in_window |-> 0, denied_before |-> 0]

\* one client sends without restraint, the others at most LightMax requests per window
Request ==
    \E key \in Keys :
        /\ key = HeavyKey \/ Len(window_log[key]) < LightMax
        /\ rate_limit_dependency(key)

NextRL ==
    \/ Request
    \/ Tick

(***************************************************************************)
(* SessionPersistence (app/utils/session_persistence.py)                   *)
(*                                                                         *)
(* An index entry keeps the fields the operations change: message_count,   *)
(* updated_at, last_activity and metadata (the other fields are written    *)
(* once by create_session).  A file is absent, holds valid JSON ("ok") or  *)
(* holds a truncated write ("corrupt").  A write either succeeds, fails    *)
(* when the file is opened (the file keeps its contents) or fails after    *)
(* open(..., 'w') has truncated it (the file is left corrupt).             *)
(***************************************************************************)
SessionIds == {"s1", "s2"}
Contents == {"hi"}
\* the metadata dictionaries passed by the callers
Metadatas == {EmptyMap}
MaxMessages == 2
DayStep == 31
MaxDay == 31
MaxFaults == 1
DefaultDays == 30
Retention == {DefaultDays}
WriteOutcomes == {"ok", "open_fail", "dump_fail"}
UnlinkOutcomes == {"ok", "fail"}

NoFile == [state |-> "absent", messages |-> <<>>]
CorruptFile == [state |-> "corrupt", messages |-> <<>>]
NoIndexFile == [state |-> "absent", data |-> EmptyMap]
CorruptIndexFile == [state |-> "corrupt", data |-> EmptyMap]

\* session_persistence.py:48-58, _load_session_index: a missing or unreadable file gives {}
_load_session_index(file) == IF file.state = "ok" THEN file.data ELSE EmptyMap

\* session_persistence.py:60-67, _save_session_index: the file after the write
_save_session_index(index, file, w) ==
    CASE w = "ok" -> [state |-> "ok", data |-> index]
      [] w = "open_fail" -> file
      [] w = "dump_fail" -> CorruptIndexFile

\* session_persistence.py:118-119 and 168-169: the session file after the write
WriteSessionFile(file, messages, w) ==
    CASE w = "ok" -> [state |-> "ok", messages |-> messages]
      [] w = "open_fail" -> file
      [] w = "dump_fail" -> CorruptFile

\* dict.update (session_persistence.py:328)
DictUpdate(old, new) ==
    [k \in DOMAIN old \cup DOMAIN new |-> IF k \in DOMAIN new THEN new[k] ELSE old[k]]

\* del self._session_index[session_id]
DictRemove(index, sid) == [k \in DOMAIN index \ {sid} |-> index[k]]

DictPut(index, sid, entry) ==
    [k \in DOMAIN index \cup {sid} |-> IF k = sid THEN entry ELSE index[k]]

\* session_persistence.py:91-102: the index entry of a new session
NewEntry(meta) ==
    [message_count |-> 0, updated_at |-> sp_now, last_activity |-> sp_now, metadata |-> meta]

\* variant of Count that is one short (sensitivity of C2)
CountWrong(messages) == Len(messages) - 1
\* session_persistence.py:172-174: message_count after a message was stored
Count(messages) == Len(messages)

\* variant of AlreadyExists that never refuses (sensitivity of C3)
AlreadyExistsWrong(sid, index) == FALSE
\* session_persistence.py:87-88: create_session refuses an id of the index
AlreadyExists(sid, index) == sid \in DOMAIN index

\* SessionPersistence.create_session(session_id, metadata=meta); fw and iw are the
\* outcomes of writing the session file and the index file
create_session(sid, meta, fw, iw) ==
    IF AlreadyExists(sid, session_index)
    THEN /\ sp_last' = [op |-> "create_session", sid |-> sid, result |-> "SessionError"]
         /\ UNCHANGED <<session_index, index_file, session_files, sp_now>>
    ELSE LET added == DictPut(session_index, sid, NewEntry(meta))
             done == fw = "ok" /\ iw = "ok"
         IN  /\ session_files' = [session_files EXCEPT
                                    ![sid] = WriteSessionFile(@, <<>>, fw)]
             /\ index_file' = IF fw = "ok"
                              THEN _save_session_index(added, index_file, iw)
                              ELSE index_file
             \* 127-131: on any failure the entry is taken out of the index again
             /\ session_index' = IF done THEN added ELSE DictRemove(added, sid)
             /\ sp_last' = [op |-> "create_session", sid |-> sid,
                            result |-> IF done THEN "ok" ELSE "SessionError"]
             /\ UNCHANGED sp_now

\* SessionPersistence.save_message(session_id, message)
save_message(sid, content, fw, iw) ==
    IF sid \notin DOMAIN session_index
    THEN /\ sp_last' = [op |-> "save_message", sid |-> sid, result |-> "SessionError"]
         /\ UNCHANGED <<session_index, index_file, session_files, sp_now>>
    ELSE IF session_files[sid].state = "corrupt"
    THEN \* 152-153: json.load raises
         /\ sp_last' = [op |-> "save_message", sid |-> sid, result |-> "MemoryError"]
         /\ UNCHANGED <<session_index, index_file, session_files, sp_now>>
    ELSE LET messages == Append(session_files[sid].messages,
                                [content |-> content, timestamp |-> sp_now])
             entry == [session_index[sid] EXCEPT
                          !.updated_at = sp_now,
                          !.last_activity = sp_now,
                          !.message_count = Count(messages)]
             updated == [session_index EXCEPT ![sid] = entry]
         IN  /\ session_files' = [session_files EXCEPT
                                    ![sid] = WriteSessionFile(@, messages, fw)]
             /\ session_index' = IF fw = "ok" THEN updated ELSE session_index
             /\ index_file' = IF fw = "ok"
                              THEN _save_session_index(updated, index_file, iw)
                              ELSE index_file
             /\ sp_last' = [op |-> "save_message", sid |-> sid,
                            result |-> IF fw = "ok" /\ iw = "ok" THEN "ok" ELSE "MemoryError"]
             /\ UNCHANGED sp_now

\* SessionPersistence.get_session_messages(session_id)
get_session_messages(sid) ==
    /\ sp_last' = [op |-> "get_session_messages", sid |-> sid,
                   result |-> IF sid \notin DOMAIN session_index THEN "SessionError"
                              ELSE IF session_files[sid].state = "corrupt" THEN "MemoryError"
                              ELSE "ok"]
    /\ UNCHANGED <<session_index, index_file, session_files, sp_now>>

\* SessionPersistence.update_session_metadata(session_id, metadata)
update_session_metadata(sid, meta, iw) ==
    IF sid \notin DOMAIN session_index
    THEN /\ sp_last' = [op |-> "update_session_metadata", sid |-> sid,
                        result |-> "SessionError"]
         /\ UNCHANGED <<session_index, index_file, session_files, sp_now>>
    ELSE LET entry == [session_index[sid] EXCEPT
                          !.metadata = DictUpdate(@, meta),
                          !.updated_at = sp_now]
             updated == [session_index EXCEPT ![sid] = entry]
         IN  /\ session_index' = updated
             /\ index_file' = _save_session_index(updated, index_file, iw)
             /\ sp_last' = [op |-> "update_session_metadata", sid |-> sid,
                            result |-> IF iw = "ok" THEN "true" ELSE "false"]
             /\ UNCHANGED <<session_files, sp_now>>

\* the store: the in-memory index, the index file and the session files
Store(index, ifile, files) == [index |-> index, ifile |-> ifile, files |-> files]

\* variant of DeleteKnown that leaves the session file (sensitivity of C4)
DeleteKnownWrong(st, sid, ul, iw) ==
    LET removed == DictRemove(st.index, sid)
    IN  [store |-> Store(removed, _save_session_index(removed, st.ifile, iw), st.files),
         ret |-> iw = "ok"]
\* SessionPersistence.delete_session(session_id) on a session of the index: the
\* store afterwards and the value returned; ul and iw are the outcomes of
\* unlinking the session file and of writing the index file
DeleteKnown(st, sid, ul, iw) ==
    IF st.files[sid].state # "absent" /\ ul = "fail"
    THEN [store |-> st, ret |-> FALSE]
    ELSE LET removed == DictRemove(st.index, sid)
         IN  [store |-> Store(removed,
                              _save_session_index(removed, st.ifile, iw),
                              [st.files EXCEPT ![sid] = NoFile]),
              ret |-> iw = "ok"]

delete_session(sid, ul, iw) ==
    IF sid \notin DOMAIN session_index
    THEN /\ sp_last' = [op |-> "delete_session", sid |-> sid, result |-> "SessionError"]
         /\ UNCHANGED <<session_index, index_file, session_files, sp_now>>
    ELSE LET r == DeleteKnown(Store(session_index, index_file, session_files), sid, ul, iw)
         IN  /\ session_index' = r.store.index
             /\ index_file' = r.store.ifile
             /\ session_files' = r.store.files
             /\ sp_last' = [op |-> "delete_session", sid |-> sid,
                            result |-> IF r.ret THEN "true" ELSE "false"]
             /\ UNCHANGED sp_now

\* session_persistence.py:393-399: delete the expired sessions one after the other
RECURSIVE DeleteAll(_, _, _, _)
DeleteAll(st, order, ul, iw) ==
    IF order = <<>>
    THEN [store |-> st, deleted |-> 0]
    ELSE LET r == DeleteKnown(st, Head(order), ul[Head(order)], iw[Head(order)])
             rest == DeleteAll(r.store, Tail(order), ul, iw)
         IN  [store |-> rest.store,
              deleted |-> rest.deleted + (IF r.ret THEN 1 ELSE 0)]

\* session_persistence.py:382-390: the sessions whose last activity is before the cutoff
Expired(index, days) == {sid \in DOMAIN index : index[sid].last_activity < sp_now - days}

\* the orders in which a set of ids can be listed
Orders(S) == {o \in [1..Cardinality(S) -> S] : \A i, j \in DOMAIN o : i # j => o[i] # o[j]}

\* SessionPersistence.cleanup_expired_sessions(days)
cleanup_expired_sessions(days, order, ul, iw) ==
    LET r == DeleteAll(Store(session_index, index_file, session_files), order, ul, iw)
    IN  /\ session_index' = r.store.index
        /\ index_file' = r.store.ifile
        /\ session_files' = r.store.files
        /\ sp_last' = [op |-> "cleanup_expired_sessions", sid |-> "", result |-> "ok"]
        /\ UNCHANGED sp_now

\* SessionPersistence.__init__ in a new process: the index is read from the file
sp_init ==
    /\ session_index' = _load_session_index(index_file)
    /\ sp_last' = [op |-> "init", sid |-> "", result |-> "ok"]
    /\ UNCHANGED <<index_file, session_files, sp_now, sp_faults>>

sp_tick ==
    /\ sp_now + DayStep <= MaxDay
    /\ sp_now' = sp_now + DayStep
    /\ sp_last' = [op |-> "tick", sid |-> "", result |-> "ok"]
    /\ UNCHANGED <<session_index, index_file, session_files, sp_faults>>

\* a new SessionPersistence over an empty storage directory
InitSPState ==
    /\ session_index = EmptyMap
    /\ index_file = NoIndexFile
    /\ session_files = [sid \in SessionIds |-> NoFile]
    /\ sp_now = 0
    /\ sp_last = [op |-> "init", sid |-> "", result |-> "ok"]

\* sp_faults is the number of file operations that may still fail: MaxFaults
\* of them in a run of SpecSP, none in a run of SpecSPOk
InitSP == InitSPState /\ sp_faults = MaxFaults
InitSPOk == InitSPState /\ sp_faults = 0

\* a failing outcome is drawn only for a file operation the call reaches
Failed(w) == IF w = "ok" THEN 0 ELSE 1
RECURSIVE SumFaults(_, _, _)
SumFaults(S, ul, iw) ==
    IF S = {} THEN 0
    ELSE LET sid == CHOOSE x \in S : TRUE
         IN  Failed(ul[sid]) + Failed(iw[sid]) + SumFaults(S \ {sid}, ul, iw)
Fault(n) == n <= sp_faults /\ sp_faults' = sp_faults - n
Reached(cond, w) == cond \/ w = "ok"

CreateSession ==
    \E sid \in SessionIds, meta \in Metadatas, fw, iw \in WriteOutcomes :
        /\ Reached(~AlreadyExists(sid, session_index), fw)
        /\ Reached(~AlreadyExists(sid, session_index) /\ fw = "ok", iw)
        /\ Fault(Failed(fw) + Failed(iw))
        /\ create_session(sid, meta, fw, iw)

SaveMessage ==
    \E sid \in SessionIds, content \in Contents, fw, iw \in WriteOutcomes :
        /\ Len(session_files[sid].messages) < MaxMessages
        /\ Reached(sid \in DOMAIN session_index /\ session_files[sid].state # "corrupt", fw)
        /\ Reached(sid \in DOMAIN session_index /\ session_files[sid].state # "corrupt"
                   /\ fw = "ok", iw)
        /\ Fault(Failed(fw) + Failed(iw))
        /\ save_message(sid, content, fw, iw)

GetSessionMessages ==
    \E sid \in SessionIds : Fault(0) /\ get_session_messages(sid)

UpdateSessionMetadata ==
    \E sid \in SessionIds, meta \in Metadatas, iw \in WriteOutcomes :
        /\ Reached(sid \in DOMAIN session_index, iw)
        /\ Fault(Failed(iw))
        /\ update_session_metadata(sid, meta, iw)

\* the file operations one delete_session call reaches
UnlinkReached(index, files, sid) == sid \in DOMAIN index /\ files[sid].state # "absent"
IndexWriteReached(index, sid, ul) == sid \in DOMAIN index /\ ul = "ok"

DeleteSession ==
    \E sid \in SessionIds, ul \in UnlinkOutcomes, iw \in WriteOutcomes :
        /\ Reached(UnlinkReached(session_index, session_files, sid), ul)
        /\ Reached(IndexWriteReached(session_index, sid, ul), iw)
        /\ Fault(Failed(ul) + Failed(iw))
        /\ delete_session(sid, ul, iw)

CleanupExpiredSessions ==
    \E days \in Retention :
        LET expired == Expired(session_index, days)
        IN  \E ul \in [expired -> UnlinkOutcomes], iw \in [expired -> WriteOutcomes] :
                /\ \A sid \in expired :
                      /\ Reached(UnlinkReached(session_index, session_files, sid), ul[sid])
                      /\ Reached(IndexWriteReached(session_index, sid, ul[sid]), iw[sid])
                /\ Fault(SumFaults(expired, ul, iw))
                /\ \E order \in Orders(expired) :
                      cleanup_expired_sessions(days, order, ul, iw)

NextSP ==
    \/ (CreateSession /\ UNCHANGED notSP)
    \/ (SaveMessage /\ UNCHANGED notSP)
    \/ (GetSessionMessages /\ UNCHANGED notSP)
    \/ (UpdateSessionMetadata /\ UNCHANGED notSP)
    \/ (DeleteSession /\ UNCHANGED notSP)
    \/ (CleanupExpiredSessions /\ UNCHANGED notSP)
    \/ (sp_init /\ UNCHANGED notSP)
    \/ (sp_tick /\ UNCHANGED notSP)

(***************************************************************************)
(* MemoryManager (src/utils/memory_manager.py)                             *)
(***************************************************************************)
\* session ids: the ones callers pass, and session_<time> made by AutoId
GivenIds == {<<"demo_session", 1>>}
UserMessages == {"hello"}
MaxTurns == 2
ClearDefaultDays == 30
\* the retention periods passed to clear_old_sessions: the default, and the
\* age the oldest sessions have after one step of the clock
ClearDays == {ClearDefaultDays, DayStep}
\* how one _save_memory call ends: both files written, or an exception at
\* opening or at dumping sessions.pkl or current_session.json
SaveOutcomes == {"ok", "pkl_open_fail", "pkl_dump_fail", "json_open_fail", "json_dump_fail"}

AutoId(t) == <<"session", t>>

NoCurrent == <<>>
NoSessionsFile == [state |-> "absent", data |-> EmptyMap]
CorruptSessionsFile == [state |-> "corrupt", data |-> EmptyMap]
NoCurrentFile == [state |-> "absent", data |-> <<>>]
CorruptCurrentFile == [state |-> "corrupt", data |-> <<>>]

\* ConversationSession(session_id, start_time=now, last_update=now, turns=[])
ConversationSession(id, t) ==
    [session_id |-> id, start_time |-> t, last_update |-> t, turns |-> <<>>]

\* variant of add_turn that leaves last_update alone (sensitivity of C10)
add_turnWrong(session, msg, t) ==
    [session EXCEPT !.turns = Append(@, [timestamp |-> t, user_message |-> msg])]
\* ConversationSession.add_turn
add_turn(session, msg, t) ==
    [session EXCEPT !.turns = Append(@, [timestamp |-> t, user_message |-> msg]),
                    !.last_update = t]

\* the session_data dictionary written to current_session.json: no turns
SessionData(session) ==
    [session_id |-> session.session_id, start_time |-> session.start_time,
     last_update |-> session.last_update]

\* _save_memory: sessions.pkl, then current_session.json when there is a
\* current session; an exception ends the call and is only printed
_save_memory(sess, cur, pkl, json, w) ==
    [pkl  |-> CASE w = "pkl_open_fail" -> pkl
                [] w = "pkl_dump_fail" -> CorruptSessionsFile
                [] OTHER -> [state |-> "ok", data |-> sess],
     json |-> IF w \in {"pkl_open_fail", "pkl_dump_fail"} \/ cur = NoCurrent THEN json
              ELSE CASE w = "json_open_fail" -> json
                     [] w = "json_dump_fail" -> CorruptCurrentFile
                     [] OTHER -> [state |-> "ok", data |-> <<SessionData(cur[1])>>]]

\* _load_memory: the session map from sessions.pkl, the current session from
\* current_session.json with an empty turn list; nothing when a file is unreadable
_load_memory(pkl, json) ==
    IF pkl.state = "corrupt" \/ json.state = "corrupt"
    THEN [sessions |-> EmptyMap, current |-> NoCurrent]
    ELSE [sessions |-> IF pkl.state = "ok" THEN pkl.data ELSE EmptyMap,
          current  |-> IF json.state = "ok"
                       THEN <<[session_id |-> json.data[1].session_id,
                               start_time |-> json.data[1].start_time,
                               last_update |-> json.data[1].last_update,
                               turns |-> <<>>]>>
                       ELSE NoCurrent]

MMState(sess, cur, pkl, json) == [sessions |-> sess, current |-> cur, pkl |-> pkl, json |-> json]

\* variant of Archive that drops the current session (sensitivity of C7)
ArchiveWrong(sess, cur) == sess
\* if self.current_session: self.sessions[its id] = self.current_session
Archive(sess, cur) ==
    IF cur # NoCurrent THEN DictPut(sess, cur[1].session_id, cur[1]) ELSE sess

\* the body of create_session, from a state of the manager to the next
CreateIn(st, id, t, w) ==
    LET archived == Archive(st.sessions, st.current)
        created  == <<ConversationSession(id, t)>>
        files    == _save_memory(archived, created, st.pkl, st.json, w)
    IN  MMState(archived, created, files.pkl, files.json)

CurrentId(cur) == IF cur = NoCurrent THEN <<>> ELSE <<cur[1].session_id>>

SetMM(st) ==
    /\ sessions' = st.sessions
    /\ current_session' = st.current
    /\ sessions_file' = st.pkl
    /\ current_session_file' = st.json

mm_create_session(id, w) ==
    /\ SetMM(CreateIn(MMState(sessions, current_session, sessions_file, current_session_file),
                      id, mm_now, w))
    /\ mm_last' = [op |-> "create_session", sid |-> id, result |-> "ok", count |-> 0,
                   days |-> 0, prev |-> CurrentId(current_session), removed |-> {}]
    /\ UNCHANGED mm_now

\* add_conversation_turn: w1 is the save of the create_session it calls when
\* there is no current session, w2 its own save
add_conversation_turn(msg, w1, w2) ==
    LET st0   == MMState(sessions, current_session, sessions_file, current_session_file)
        st1   == IF current_session = NoCurrent THEN CreateIn(st0, AutoId(mm_now), mm_now, w1)
                 ELSE st0
        cur   == add_turn(st1.current[1], msg, mm_now)
        sess  == DictPut(st1.sessions, cur.session_id, cur)
        files == _save_memory(sess, <<cur>>, st1.pkl, st1.json, w2)
    IN  /\ SetMM(MMState(sess, <<cur>>, files.pkl, files.json))
        /\ mm_last' = [op |-> "add_conversation_turn", sid |-> cur.session_id,
                       result |-> "true", count |-> 0, days |-> 0,
                       prev |-> CurrentId(current_session), removed |-> {}]
        /\ UNCHANGED mm_now

\* variant of SwitchTo that activates an empty copy (sensitivity of C8)
SwitchToWrong(sess, id) == <<[sess[id] EXCEPT !.turns = <<>>]>>
\* self.current_session = self.sessions[session_id]
SwitchTo(sess, id) == <<sess[id]>>

switch_session(id, w) ==
    /\ IF id \notin DOMAIN sessions
       THEN /\ mm_last' = [op |-> "switch_session", sid |-> id, result |-> "false",
                           count |-> 0, days |-> 0, prev |-> CurrentId(current_session), removed |-> {}]
            /\ UNCHANGED <<sessions, current_session, sessions_file, current_session_file>>
       ELSE LET archived == Archive(sessions, current_session)
                cur      == SwitchTo(archived, id)
                files    == _save_memory(archived, cur, sessions_file, current_session_file, w)
            IN  /\ SetMM(MMState(archived, cur, files.pkl, files.json))
                /\ mm_last' = [op |-> "switch_session", sid |-> id, result |-> "true",
                               count |-> 0, days |-> 0,
                               prev |-> CurrentId(current_session), removed |-> {}]
    /\ UNCHANGED mm_now

\* variant of OldSessions that also takes a session exactly at the cutoff (sensitivity of C9)
OldSessionsWrong(sess, days, t) == {id \in DOMAIN sess : sess[id].last_update <= t - days}
\* the ids clear_old_sessions collects: last_update < cutoff_date
OldSessions(sess, days, t) == {id \in DOMAIN sess : sess[id].last_update < t - days}

clear_old_sessions(days, w) ==
    LET old   == OldSessions(sessions, days, mm_now)
        kept  == [id \in DOMAIN sessions \ old |-> sessions[id]]
        files == _save_memory(kept, current_session, sessions_file, current_session_file, w)
    IN  /\ SetMM(MMState(kept, current_session, files.pkl, files.json))
        /\ mm_last' = [op |-> "clear_old_sessions", sid |-> <<>>, result |-> "ok",
                       count |-> Cardinality(old), days |-> days,
                       prev |-> CurrentId(current_session), removed |-> old]
        /\ UNCHANGED mm_now

\* MemoryManager.__init__ in a new process over the same memory directory
mm_init ==
    LET loaded == _load_memory(sessions_file, current_session_file)
    IN  /\ sessions' = loaded.sessions
        /\ current_session' = loaded.current
        /\ mm_last' = [op |-> "init", sid |-> <<>>, result |-> "ok", count |-> 0,
                       days |-> 0, prev |-> <<>>, removed |-> {}]
        /\ UNCHANGED <<sessions_file, current_session_file, mm_now, mm_faults>>

mm_tick ==
    /\ mm_now + DayStep <= MaxDay
    /\ mm_now' = mm_now + DayStep
    /\ mm_last' = [op |-> "tick", sid |-> <<>>, result |-> "ok", count |-> 0,
                   days |-> 0, prev |-> <<>>, removed |-> {}]
    /\ UNCHANGED <<sessions, current_session, sessions_file, current_session_file, mm_faults>>

\* a new MemoryManager over an empty memory directory
InitMMState ==
    /\ sessions = EmptyMap
    /\ current_session = NoCurrent
    /\ sessions_file = NoSessionsFile
    /\ current_session_file = NoCurrentFile
    /\ mm_now = 0
    /\ mm_last = [op |-> "init", sid |-> <<>>, result |-> "ok", count |-> 0,
                  days |-> 0, prev |-> <<>>, removed |-> {}]

\* mm_faults is the number of _save_memory calls that may still fail:
\* MaxFaults of them in a run of SpecMM, none in a run of SpecMMOk
InitMM == InitMMState /\ mm_faults = MaxFaults
InitMMOk == InitMMState /\ mm_faults = 0

MMFault(n) == n <= mm_faults /\ mm_faults' = mm_faults - n

MMCreateSession ==
    \E id \in GivenIds \cup {AutoId(mm_now)}, w \in SaveOutcomes :
        /\ MMFault(Failed(w))
        /\ mm_create_session(id, w)

AddConversationTurn ==
    \E msg \in UserMessages, w1, w2 \in SaveOutcomes :
        /\ current_session # NoCurrent => Len(current_session[1].turns) < MaxTurns
        /\ Reached(current_session = NoCurrent, w1)
        /\ MMFault(Failed(w1) + Failed(w2))
        /\ add_conversation_turn(msg, w1, w2)

SwitchSession ==
    \E id \in GivenIds \cup DOMAIN sessions, w \in SaveOutcomes :
        /\ Reached(id \in DOMAIN sessions, w)
        /\ MMFault(Failed(w))
        /\ switch_session(id, w)

ClearOldSessions ==
    \E days \in ClearDays, w \in SaveOutcomes :
        /\ MMFault(Failed(w))
        /\ clear_old_sessions(days, w)

NextMM ==
    \/ (MMCreateSession /\ UNCHANGED notMM)
    \/ (AddConversationTurn /\ UNCHANGED notMM)
    \/ (SwitchSession /\ UNCHANGED notMM)
    \/ (ClearOldSessions /\ UNCHANGED notMM)
    \/ (mm_init /\ UNCHANGED notMM)
    \/ (mm_tick /\ UNCHANGED notMM)

(***************************************************************************)
(* The /ws endpoint (src/demo/web_interface/backend/app/main.py)           *)
(***************************************************************************)
ReceiveTimeout == 60
HeartbeatInterval == 30
MaxFrames == 2
MaxWsTime == 60

\* a client text frame, by what json.loads and the handler see of it: json is
\* "malformed", "value" (valid JSON that is no object) or "object"; type is the
\* value of its "type" key ("None" when the key is missing); payload is "dict"
\* or "null"
TextFrame(json, type, payload) == [json |-> json, type |-> type, payload |-> payload]
TextFrames ==
    {TextFrame("malformed", "", ""), TextFrame("value", "", "")}
    \cup {TextFrame("object", t, "dict") :
             t \in {"ping", "pong", "message", "subscribe", "bogus", "None"}}
    \cup {TextFrame("object", "message", "null")}
KnownTypes == {"ping", "message", "pong", "subscribe", "unsubscribe"}
NoFrame == TextFrame("", "", "")

\* the envelopes send_json sends
Envelope(type, error, received_type) ==
    [type |-> type, error |-> error, received_type |-> received_type]
Ping == Envelope("ping", <<>>, "")
Pong == Envelope("pong", <<>>, "")
InvalidJson == Envelope("error", <<"invalid_json">>, "")
ProcessingFailed == Envelope("error", <<"message_processing_failed">>, "")
UnknownType(t) == Envelope("error", <<"Unknown message type: ", t>>, t)

\* variant of Dispatch that answers a ping with a ping (sensitivity of C12)
DispatchWrong(frame) ==
    CASE frame.type = "ping" -> <<Ping>>
      [] frame.type = "message" -> <<Envelope("message_response", <<>>, "")>>
      [] frame.type = "pong" -> <<>>
      [] frame.type \in {"subscribe", "unsubscribe"} -> <<Envelope("message_update", <<>>, "")>>
      [] OTHER -> <<UnknownType(frame.type)>>
\* main.py:285-339: the branch on msg_type, for a frame that is a JSON object
\* with a dict payload
Dispatch(frame) ==
    CASE frame.type = "ping" -> <<Pong>>
      [] frame.type = "message" -> <<Envelope("message_response", <<>>, "")>>
      [] frame.type = "pong" -> <<>>
      [] frame.type \in {"subscribe", "unsubscribe"} -> <<Envelope("message_update", <<>>, "")>>
      [] OTHER -> <<UnknownType(frame.type)>>

\* variant of Reply that drops a frame it cannot parse (sensitivity of C11)
ReplyWrong(frame) ==
    IF frame.json = "malformed" THEN <<>>
    ELSE IF frame.json = "value" THEN <<ProcessingFailed>>
    ELSE IF frame.payload # "dict" /\ frame.type \in {"message", "subscribe", "unsubscribe"}
         THEN <<ProcessingFailed>>
    ELSE Dispatch(frame)
\* main.py:278-357: the envelopes one text frame is answered with: json.loads
\* raises JSONDecodeError on malformed text; message.get and payload.get raise
\* AttributeError on a JSON value that is no object
Reply(frame) ==
    IF frame.json = "malformed" THEN <<InvalidJson>>
    ELSE IF frame.json = "value" THEN <<ProcessingFailed>>
    ELSE IF frame.payload # "dict" /\ frame.type \in {"message", "subscribe", "unsubscribe"}
         THEN <<ProcessingFailed>>
    ELSE Dispatch(frame)

WsLast(op, frame) == [op |-> op, frame |-> frame, conn |-> ws_conn]

\* the client sends a text frame and receive_text returns it
WsReceiveText ==
    /\ ws_pc = "receive" /\ ws_conn = "up"
    /\ ws_frames < MaxFrames
    /\ \E frame \in TextFrames : ws_frame' = frame /\ ws_last' = WsLast("receive", frame)
    /\ ws_frames' = ws_frames + 1
    /\ ws_pc' = "handle"
    /\ UNCHANGED <<ws_conn, ws_sent, ws_wait, ws_time, hb_pc, hb_wait, hb_cancel>>

\* the client sends a binary frame: receive_text raises KeyError, which leaves
\* the loop through the outer except
WsReceiveBinary ==
    /\ ws_pc = "receive" /\ ws_conn = "up"
    /\ ws_frames < MaxFrames
    /\ ws_frames' = ws_frames + 1
    /\ ws_pc' = "finally"
    /\ ws_last' = WsLast("receive_binary", NoFrame)
    /\ UNCHANGED <<ws_conn, ws_frame, ws_sent, ws_wait, ws_time, hb_pc, hb_wait, hb_cancel>>

\* receive_text raises WebSocketDisconnect once the client has closed
WsReceiveDisconnect ==
    /\ ws_pc = "receive" /\ ws_conn = "closed"
    /\ ws_pc' = "finally"
    /\ ws_last' = WsLast("disconnect", NoFrame)
    /\ UNCHANGED <<ws_conn, ws_frame, ws_frames, ws_sent, ws_wait, ws_time, hb_pc, hb_wait, hb_cancel>>

\* variant of AfterTimeout that gives the connection up (sensitivity of C13)
AfterTimeoutWrong(conn) == "finally"
\* main.py:264-274: after a timeout with the ping sent the loop continues; a
\* send_json that raises on a closed connection leaves the loop
AfterTimeout(conn) == IF conn = "up" THEN "receive" ELSE "finally"

\* asyncio.wait_for(websocket.receive_text(), timeout=60.0) times out
WsTimeout ==
    /\ ws_pc = "receive" /\ ws_wait = ReceiveTimeout
    /\ ws_sent' = IF ws_conn = "up" THEN Append(ws_sent, Ping) ELSE ws_sent
    /\ ws_pc' = AfterTimeout(ws_conn)
    /\ ws_wait' = 0
    /\ ws_last' = WsLast("timeout", NoFrame)
    /\ UNCHANGED <<ws_conn, ws_frame, ws_frames, ws_time, hb_pc, hb_wait, hb_cancel>>

\* the body of the loop for one text frame: the answer is sent and the loop
\* goes back to receive; on a closed connection send_json raises, also in the
\* except branches, and the loop is left
WsHandle ==
    /\ ws_pc = "handle"
    /\ LET reply == Reply(ws_frame)
       IN  IF reply = <<>> \/ ws_conn = "up"
           THEN ws_sent' = ws_sent \o reply /\ ws_pc' = "receive"
           ELSE ws_sent' = ws_sent /\ ws_pc' = "finally"
    /\ ws_wait' = 0
    /\ ws_last' = WsLast("handle", ws_frame)
    /\ UNCHANGED <<ws_conn, ws_frame, ws_frames, ws_time, hb_pc, hb_wait, hb_cancel>>

\* variant of Finally that forgets the heartbeat task (sensitivity of C20)
FinallyWrong(task) == [pc |-> "done", cancel |-> FALSE]
\* main.py:363-369: heartbeat_task.cancel(), then await heartbeat_task
Finally(task) == [pc |-> "await_heartbeat", cancel |-> task = "sleep"]

WsFinally ==
    /\ ws_pc = "finally"
    /\ ws_pc' = Finally(hb_pc).pc
    /\ hb_cancel' = Finally(hb_pc).cancel
    /\ ws_conn' = IF ws_pc' = "done" THEN "closed" ELSE ws_conn
    /\ ws_last' = WsLast("finally", NoFrame)
    /\ UNCHANGED <<ws_frame, ws_frames, ws_sent, ws_wait, ws_time, hb_pc, hb_wait>>

\* await heartbeat_task returns (or raises CancelledError, which is passed
\* over) once the task has ended; the handler returns and the server closes
\* the connection
WsDone ==
    /\ ws_pc = "await_heartbeat"
    /\ hb_pc \in {"ended", "cancelled"}
    /\ ws_pc' = "done"
    /\ ws_conn' = "closed"
    /\ ws_last' = WsLast("done", NoFrame)
    /\ UNCHANGED <<ws_frame, ws_frames, ws_sent, ws_wait, ws_time, hb_pc, hb_wait, hb_cancel>>

\* send_heartbeats: asyncio.sleep(30) is over and the ping is sent; a send that
\* raises ends the task
send_heartbeats ==
    /\ hb_pc = "sleep" /\ hb_wait = HeartbeatInterval /\ ~hb_cancel
    /\ IF ws_conn = "up"
       THEN ws_sent' = Append(ws_sent, Ping) /\ hb_pc' = "sleep"
       ELSE ws_sent' = ws_sent /\ hb_pc' = "ended"
    /\ hb_wait' = 0
    /\ ws_last' = WsLast("heartbeat", NoFrame)
    /\ UNCHANGED <<ws_conn, ws_pc, ws_frame, ws_frames, ws_wait, ws_time, hb_cancel>>

\* the cancelled heartbeat task gets CancelledError at its await
HeartbeatCancelled ==
    /\ hb_pc = "sleep" /\ hb_cancel
    /\ hb_pc' = "cancelled"
    /\ ws_last' = WsLast("heartbeat_cancelled", NoFrame)
    /\ UNCHANGED <<ws_conn, ws_pc, ws_frame, ws_frames, ws_sent, ws_wait, ws_time, hb_wait, hb_cancel>>

\* the client closes the connection
ClientClose ==
    /\ ws_conn = "up"
    /\ ws_conn' = "closed"
    /\ ws_last' = WsLast("client_close", NoFrame)
    /\ UNCHANGED <<ws_pc, ws_frame, ws_frames, ws_sent, ws_wait, ws_time, hb_pc, hb_wait, hb_cancel>>

\* HeartbeatInterval seconds pass with the handler waiting in receive (or
\* finished) and no timer overdue
WsTick ==
    /\ ws_time + HeartbeatInterval <= MaxWsTime
    /\ ws_pc \in {"receive", "done"}
    /\ ws_pc = "receive" => (ws_conn = "up" /\ ws_wait < ReceiveTimeout)
    /\ (hb_pc = "sleep") => (hb_wait < HeartbeatInterval /\ ~hb_cancel)
    /\ ws_time' = ws_time + HeartbeatInterval
    /\ ws_wait' = IF ws_pc = "receive" THEN ws_wait + HeartbeatInterval ELSE ws_wait
    /\ hb_wait' = IF hb_pc = "sleep" THEN hb_wait + HeartbeatInterval ELSE hb_wait
    /\ ws_last' = WsLast("tick", NoFrame)
    /\ UNCHANGED <<ws_conn, ws_pc, ws_frame, ws_frames, ws_sent, hb_pc, hb_cancel>>

\* websocket.accept() has returned and the heartbeat task is created
InitWS ==
    /\ ws_conn = "up"
    /\ ws_pc = "receive"
    /\ ws_frame = NoFrame
    /\ ws_frames = 0
    /\ ws_sent = <<>>
    /\ ws_wait = 0
    /\ ws_time = 0
    /\ hb_pc = "sleep"
    /\ hb_wait = 0
    /\ hb_cancel = FALSE
    /\ ws_last = [op |-> "accept", frame |-> NoFrame, conn |-> "up"]

NextWS ==
    \/ (WsReceiveText /\ UNCHANGED notWS)
    \/ (WsReceiveBinary /\ UNCHANGED notWS)
    \/ (WsReceiveDisconnect /\ UNCHANGED notWS)
    \/ (WsTimeout /\ UNCHANGED notWS)
    \/ (WsHandle /\ UNCHANGED notWS)
    \/ (WsFinally /\ UNCHANGED notWS)
    \/ (WsDone /\ UNCHANGED notWS)
    \/ (send_heartbeats /\ UNCHANGED notWS)
    \/ (HeartbeatCancelled /\ UNCHANGED notWS)
    \/ (ClientClose /\ UNCHANGED notWS)
    \/ (WsTick /\ UNCHANGED notWS)

\* Init: file operations may fail (MaxFaults times); InitOk: they all succeed
(***************************************************************************)
(* The backend application as a Python process: the modules of the `app`   *)
(* package, the adapter of the partner agent (app/utils/ai_partner.py) and *)
(* POST /api/chat/ (app/api/chat.py).                                      *)
(***************************************************************************)

AppModules ==
    {"app.main", "app.core.config", "app.core.exceptions", "app.core.security",
     "app.core.dependencies", "app.models.chat", "app.models.response",
     "app.models.persona", "app.utils.ai_partner", "app.utils.session_persistence",
     "app.api.chat", "app.api.persona", "app.api.memory", "app.api.knowledge",
     "app.api.demo", "app.api.settings", "app.services.chat_service",
     "app.services.persona_service"}

\* The import statements a module executes when it is loaded, in order, as
\* far as they name modules of the application.  app.main calls
\* register_routers() at module level, which imports the routers.
Imports(m) ==
    CASE m = "app.main" ->
           <<"app.core.config", "app.core.exceptions", "app.core.security",
             "app.api.chat", "app.api.persona", "app.api.memory",
             "app.api.knowledge", "app.api.demo", "app.api.settings">>
      [] m = "app.api.chat" ->
           <<"app.models.chat", "app.models.response", "app.core.dependencies",
             "app.core.exceptions", "app.core.security", "app.utils.ai_partner",
             "app.utils.session_persistence">>
      [] m = "app.api.persona" ->
           <<"app.models.persona", "app.models.response", "app.core.exceptions",
             "app.core.security">>
      [] m \in {"app.api.memory", "app.api.knowledge", "app.api.demo"} ->
           <<"app.models.response", "app.core.exceptions", "app.core.security">>
      [] m = "app.api.settings" ->
           <<"app.core.config", "app.core.security", "app.models.response">>
      [] m = "app.core.dependencies" -> <<"app.core.security">>
      [] m = "app.utils.session_persistence" ->
           <<"app.core.config", "app.core.exceptions">>
      [] m = "app.services.chat_service" ->
           <<"app.models.chat", "app.core.exceptions", "app.core.security",
             "app.utils.ai_partner">>
      [] m = "app.services.persona_service" ->
           <<"app.models.persona", "app.core.exceptions", "app.core.security",
             "app.utils.ai_partner">>
      [] OTHER -> <<>>

\* Whether the source text of a module compiles.  ai_partner.py does not:
\* the third reply template of MockAIPartner.chat,
\*     f"...'{message'...",
\* never closes its replacement field.
Compiles(m) == m # "app.utils.ai_partner"

NoError == "none"

RECURSIVE Load(_, _), LoadAll(_, _)
\* `import m` with `mods` already in sys.modules: the modules loaded
\* afterwards and the exception raised, if any.  A module whose execution
\* raises is not kept; the modules it had finished importing are.
Load(m, mods) ==
    IF m \in mods THEN [mods |-> mods, error |-> NoError]
    ELSE IF ~Compiles(m) THEN [mods |-> mods, error |-> "SyntaxError"]
    ELSE LET r == LoadAll(Imports(m), mods)
         IN  IF r.error = NoError
             THEN [mods |-> r.mods \cup {m}, error |-> NoError]
             ELSE r
LoadAll(ms, mods) ==
    IF ms = <<>> THEN [mods |-> mods, error |-> NoError]
    ELSE LET r == Load(Head(ms), mods)
         IN  IF r.error # NoError THEN r ELSE LoadAll(Tail(ms), r.mods)

\* Messages are sequences of characters.
EmptyMessage == <<>>
Messages == {EmptyMessage, <<" ">>, <<"h", "i">>}
IsBlank(s) == \A i \in 1..Len(s) : s[i] = " "
Contains(s, t) ==
    \E i \in 0..(Len(s) - Len(t)) : SubSeq(s, i + 1, i + Len(t)) = t

\* What the real agent does in a call of the adapter.
AgentOutcomes == {"ok", "init_fails", "chat_fails", "session_info_fails"}

NoReply == <<>>
Result(error, status, agent_type, reply) ==
    [error |-> error, status |-> status, agent_type |-> agent_type, reply |-> reply]

\* AIPartnerService.__init__ and _initialize_components: the mock agent is
\* created only when the initialization of the real agent failed.
AIPartnerService(agent) ==
    [initialized |-> agent # "init_fails",
     initialization_error |-> agent = "init_fails",
     has_mock_agent |-> agent = "init_fails"]

\* The reply templates of MockAIPartner.chat that are well formed.
MockReplies(message) ==
    {<<"received: ">> \o message, <<"about '">> \o message \o <<"'">>,
     <<"as I understand it, ">> \o message}

\* AIPartnerAgent.chat: a failure of the graph is caught and returned as an
\* apology, so the caller sees an ordinary reply.
AIPartnerAgent_chat(agent, message) ==
    IF agent = "chat_fails" THEN <<"sorry, an error occurred">>
    ELSE <<"answer to ">> \o message

ApologyReply == <<"sorry, I cannot handle your request">>

\* AIPartnerService.chat: the replies it can give.
AIPartnerService_chat(self, agent, message) ==
    LET mock == {Result(NoError, 0, "mock", r) : r \in MockReplies(message)}
        failed == {Result(NoError, 0, "error", ApologyReply)}
    IN  IF ~self.initialized /\ self.initialization_error
        THEN IF self.has_mock_agent THEN mock ELSE failed
        ELSE IF agent = "session_info_fails"
             THEN IF self.has_mock_agent THEN mock ELSE failed
             ELSE {Result(NoError, 0, "real", AIPartnerAgent_chat(agent, message))}

\* ChatRequest: message has min_length 1 and max_length 10000, and the
\* validator rejects a message that is blank.
MessageMaxLength == 10000
ChatRequestValid(message) ==
    /\ Len(message) >= 1
    /\ Len(message) <= MessageMaxLength
    /\ ~IsBlank(message)

\* The methods class InputValidator defines.
InputValidatorMethods ==
    {"sanitize_message", "validate_session_id", "validate_query",
     "validate_persona_data"}
\* save_message of session_persistence: its parameters, and the keywords the
\* chat endpoint passes to it.
SaveMessageParameters == {"session_id", "message"}
SaveMessageKeywords == {"session_id", "role", "content"}

\* The body of the chat endpoint raises: it starts with
\* InputValidator.validate_message (AttributeError), and its save_message
\* calls pass keywords the function does not take (TypeError).
HandlerRaises ==
    \/ "validate_message" \notin InputValidatorMethods
    \/ ~(SaveMessageKeywords \subseteq SaveMessageParameters)

\* The chat endpoint: a request that fails ChatRequest is answered 422 before
\* the handler runs; any exception of the handler's body is turned into
\* AIServiceError (503); the fallback reply echoes the message.
chat(message) ==
    IF ~ChatRequestValid(message)
    THEN Result("RequestValidationError", 422, "none", NoReply)
    ELSE IF HandlerRaises
         THEN Result("AIServiceError", 503, "none", NoReply)
         ELSE Result(NoError, 200, "mock", <<"received: ">> \o message)

\* No HTTP response: there is no application object to answer.
NoResponse == 0
PyLast(op, module, message, agent, result) ==
    [op |-> op, module |-> module, message |-> message, agent |-> agent,
     result |-> result]

InitPY ==
    /\ sys_modules = {}
    /\ py_last = PyLast("none", "none", EmptyMessage, "none",
                        Result(NoError, NoResponse, "none", NoReply))

\* `import m` in the process (a test module, a script, uvicorn).
ImportModule(m) ==
    LET r == Load(m, sys_modules)
    IN  /\ sys_modules' = r.mods
        /\ py_last' = PyLast("import", m, EmptyMessage, "none",
                             Result(r.error, NoResponse, "none", NoReply))

\* A caller imports get_ai_partner_service from app.utils.ai_partner, gets
\* the service and awaits its chat(message).
AdapterChat(message, agent) ==
    LET r == Load("app.utils.ai_partner", sys_modules)
    IN  /\ sys_modules' = r.mods
        /\ \E res \in (IF r.error # NoError
                       THEN {Result(r.error, NoResponse, "none", NoReply)}
                       ELSE AIPartnerService_chat(AIPartnerService(agent), agent, message)) :
               py_last' = PyLast("chat", "app.utils.ai_partner", message, agent, res)

\* A client posts {"message": message} to /api/chat/ of the application
\* object of app.main (uvicorn app.main:app, or TestClient(app)).  Without
\* the application object there is no response.
PostChat(message) ==
    LET r == Load("app.main", sys_modules)
    IN  /\ sys_modules' = r.mods
        /\ py_last' = PyLast("post", "app.main", message, "none",
                             IF r.error # NoError
                             THEN Result(r.error, NoResponse, "none", NoReply)
                             ELSE chat(message))

NextPY ==
    \/ \E m \in AppModules : ImportModule(m) /\ UNCHANGED notPY
    \/ \E message \in Messages, agent \in AgentOutcomes :
           AdapterChat(message, agent) /\ UNCHANGED notPY
    \/ \E message \in Messages : PostChat(message) /\ UNCHANGED notPY

(***************************************************************************)
(* DemoLauncher (demo/start_demo.py): run, start_backend, start_frontend,  *)
(* cleanup and signal_handler, with the two child processes.               *)
(***************************************************************************)

WaitTimeout == 5
MaxSignals == 2
ChildNames == {"backend", "frontend"}

\* process.kill() after wait() timed out
Kill(children, name) == [children EXCEPT ![name] = "killed"]

LaLast(op, name) == [op |-> op, name |-> name, waited |-> la_wait]

InitLA ==
    /\ la_pc = "check"
    /\ la_handler = FALSE
    /\ la_processes = <<>>
    /\ la_child = [c \in ChildNames |-> "none"]
    /\ la_i = 1
    /\ la_ph = "terminate"
    /\ la_wait = 0
    /\ la_signals = 0
    /\ la_terminated = {}
    /\ la_exit_called = FALSE
    /\ la_last = [op |-> "init", name |-> "none", waited |-> 0]

laCleanupVars == <<la_i, la_ph, la_wait>>
laHistVars == <<la_terminated, la_exit_called>>

\* cleanup() is running: in the signal handler, or in the finally clause of run.
InCleanup == la_handler \/ la_pc = "finally"
\* the entry of self.processes the loop of cleanup() is at
Current == la_processes[la_i][1]

\* run leaves its try block without a signal: the finally clause runs cleanup().
EnterFinally ==
    /\ la_pc' = "finally"
    /\ la_i' = 1 /\ la_ph' = "terminate" /\ la_wait' = 0

\* check_requirements and setup_environment
CheckRequirements(ok) ==
    /\ la_pc = "check" /\ ~la_handler
    /\ IF ok THEN la_pc' = "backend" /\ UNCHANGED laCleanupVars ELSE EnterFinally
    /\ la_last' = LaLast("check", "none")
    /\ UNCHANGED <<la_handler, la_processes, la_child, la_signals, laHistVars>>

\* start_backend: Popen and self.processes.append, or Popen raises
StartBackend(ok) ==
    /\ la_pc = "backend" /\ ~la_handler
    /\ IF ok
       THEN /\ la_processes' = Append(la_processes, <<"backend", "process">>)
            /\ la_child' = [la_child EXCEPT !["backend"] = "running"]
            /\ la_pc' = "sleep"
            /\ UNCHANGED laCleanupVars
       ELSE /\ EnterFinally
            /\ UNCHANGED <<la_processes, la_child>>
    /\ la_last' = LaLast("start_backend", "backend")
    /\ UNCHANGED <<la_handler, la_signals, laHistVars>>

\* start_backend: time.sleep(5) returns
BackendSleep ==
    /\ la_pc = "sleep" /\ ~la_handler
    /\ la_pc' = "health"
    /\ la_last' = LaLast("sleep", "backend")
    /\ UNCHANGED <<la_handler, la_processes, la_child, laCleanupVars, la_signals,
                   laHistVars>>

\* start_backend: the health check (curl inside try ... except: pass) ends,
\* whatever its outcome, and start_backend returns True
HealthCheck ==
    /\ la_pc = "health" /\ ~la_handler
    /\ la_pc' = "frontend"
    /\ la_last' = LaLast("health_check", "backend")
    /\ UNCHANGED <<la_handler, la_processes, la_child, laCleanupVars, la_signals,
                   laHistVars>>

\* start_frontend: Popen and self.processes.append, or Popen raises; then
\* monitor_services, open_browser and the loop of run
StartFrontend(ok) ==
    /\ la_pc = "frontend" /\ ~la_handler
    /\ IF ok
       THEN /\ la_processes' = Append(la_processes, <<"frontend", "process">>)
            /\ la_child' = [la_child EXCEPT !["frontend"] = "running"]
            /\ la_pc' = "loop"
            /\ UNCHANGED laCleanupVars
       ELSE /\ EnterFinally
            /\ UNCHANGED <<la_processes, la_child>>
    /\ la_last' = LaLast("start_frontend", "frontend")
    /\ UNCHANGED <<la_handler, la_signals, laHistVars>>

\* SIGINT or SIGTERM is delivered: signal_handler starts cleanup()
Signal ==
    /\ la_pc # "exited"
    /\ la_signals < MaxSignals
    /\ la_signals' = la_signals + 1
    /\ la_handler' = TRUE
    /\ la_i' = 1 /\ la_ph' = "terminate" /\ la_wait' = 0
    /\ la_last' = LaLast("signal", "none")
    /\ UNCHANGED <<la_pc, la_processes, la_child, laHistVars>>

\* cleanup: process.terminate(), then process.wait(timeout=5) starts
CleanupTerminate ==
    /\ InCleanup /\ la_i <= Len(la_processes) /\ la_ph = "terminate"
    /\ la_terminated' = la_terminated \cup {Current}
    /\ la_ph' = "wait" /\ la_wait' = 0
    /\ la_last' = LaLast("terminate", Current)
    /\ UNCHANGED <<la_pc, la_handler, la_processes, la_child, la_i, la_signals,
                   la_exit_called>>

\* a second of process.wait(timeout=5) passes
LaTick ==
    /\ InCleanup /\ la_i <= Len(la_processes) /\ la_ph = "wait"
    /\ la_child[Current] = "running"
    /\ la_wait < WaitTimeout
    /\ la_wait' = la_wait + 1
    /\ UNCHANGED <<la_pc, la_handler, la_processes, la_child, la_i, la_ph,
                   la_signals, laHistVars, la_last>>

\* cleanup: process.wait returns, the child has exited
CleanupWaitReturn ==
    /\ InCleanup /\ la_i <= Len(la_processes) /\ la_ph = "wait"
    /\ la_child[Current] # "running"
    /\ la_i' = la_i + 1 /\ la_ph' = "terminate" /\ la_wait' = 0
    /\ la_last' = LaLast("wait", Current)
    /\ UNCHANGED <<la_pc, la_handler, la_processes, la_child, la_signals,
                   laHistVars>>

\* cleanup: process.wait raises TimeoutExpired, process.kill()
CleanupWaitTimeout ==
    /\ InCleanup /\ la_i <= Len(la_processes) /\ la_ph = "wait"
    /\ la_child[Current] = "running"
    /\ la_wait = WaitTimeout
    /\ la_child' = Kill(la_child, Current)
    /\ la_i' = la_i + 1 /\ la_ph' = "terminate" /\ la_wait' = 0
    /\ la_last' = LaLast("kill", Current)
    /\ UNCHANGED <<la_pc, la_handler, la_processes, la_signals, laHistVars>>

\* Where run is after SystemExit was raised at la_pc: the bare except around
\* the health check of start_backend catches it and start_backend goes on;
\* anywhere else in the try block of run it reaches the finally clause; in
\* the finally clause it ends run.
AfterSystemExit(pc) ==
    CASE pc = "health" -> "frontend"
      [] pc = "finally" -> "exited"
      [] OTHER -> "finally"

\* cleanup() has gone through self.processes: the signal handler calls
\* sys.exit(0); the finally clause of run ends and the launcher exits
CleanupDone ==
    /\ InCleanup /\ la_i > Len(la_processes)
    /\ IF la_handler
       THEN /\ la_handler' = FALSE
            /\ la_exit_called' = TRUE
            /\ la_pc' = AfterSystemExit(la_pc)
       ELSE /\ la_pc' = "exited"
            /\ UNCHANGED <<la_handler, la_exit_called>>
    /\ la_i' = 1 /\ la_ph' = "terminate" /\ la_wait' = 0
    /\ la_last' = LaLast(IF la_handler THEN "sys_exit" ELSE "return", "none")
    /\ UNCHANGED <<la_processes, la_child, la_signals, la_terminated>>

\* a child exits by itself: it crashed, or it obeys SIGTERM
ChildExit(c) ==
    /\ la_child[c] = "running"
    /\ la_child' = [la_child EXCEPT ![c] = "exited"]
    /\ UNCHANGED <<la_pc, la_handler, la_processes, laCleanupVars, la_signals,
                   laHistVars, la_last>>

NextLA ==
    \/ \E ok \in BOOLEAN : CheckRequirements(ok) /\ UNCHANGED notLA
    \/ \E ok \in BOOLEAN : StartBackend(ok) /\ UNCHANGED notLA
    \/ BackendSleep /\ UNCHANGED notLA
    \/ HealthCheck /\ UNCHANGED notLA
    \/ \E ok \in BOOLEAN : StartFrontend(ok) /\ UNCHANGED notLA
    \/ Signal /\ UNCHANGED notLA
    \/ CleanupTerminate /\ UNCHANGED notLA
    \/ LaTick /\ UNCHANGED notLA
    \/ CleanupWaitReturn /\ UNCHANGED notLA
    \/ CleanupWaitTimeout /\ UNCHANGED notLA
    \/ CleanupDone /\ UNCHANGED notLA
    \/ \E c \in ChildNames : ChildExit(c) /\ UNCHANGED notLA

(***************************************************************************)
(* PersonaManager._parse_markdown_persona (utils/persona_manager.py).      *)
(* Text is a sequence of characters, a document a sequence of lines.       *)
(***************************************************************************)

MaxLines == 3
Lines ==
    {<<"#", " ", "E", "x", "p", "e", "r", "t", "i", "s", "e">>,
     <<"#", " ", "I", "n", "t", "e", "r", "e", "s", "t", "s">>,
     <<"#", " ", "B", "a", "s", "i", "c", " ", "I", "n", "f", "o", "r", "m", "a", "t", "i", "o", "n">>,
     <<" ", " ", "-", " ", "p", "y">>,
     <<" ", " ", "-", " ", "g", "o">>,
     <<" ", " ", "-", " ">>,
     <<"-", " ", "t", "o", "p">>,
     <<"-", " ", "*", "*", "N", "a", "m", "e", "*", "*", ":", " ", "[", "a", "l", "]">>}
Documents == UNION {[1..n -> Lines] : n \in 0..MaxLines}

UpperCase == <<"A", "B", "C", "D", "E", "F", "G", "H", "I", "J", "K", "L", "M", "N", "O", "P", "Q", "R", "S", "T", "U", "V", "W", "X", "Y", "Z">>
LowerCase == <<"a", "b", "c", "d", "e", "f", "g", "h", "i", "j", "k", "l", "m", "n", "o", "p", "q", "r", "s", "t", "u", "v", "w", "x", "y", "z">>
LowerChar(c) ==
    IF \E i \in 1..Len(UpperCase) : UpperCase[i] = c
    THEN LowerCase[CHOOSE i \in 1..Len(UpperCase) : UpperCase[i] = c]
    ELSE c
\* str.lower
lower(s) == [i \in 1..Len(s) |-> LowerChar(s[i])]
IsSpace(c) == c \in {" ", "\t"}
RECURSIVE LStrip(_, _)
LStrip(s, chars) ==
    IF s # <<>> /\ Head(s) \in chars THEN LStrip(Tail(s), chars) ELSE s
RECURSIVE RStrip(_, _)
RStrip(s, chars) ==
    IF s # <<>> /\ s[Len(s)] \in chars
    THEN RStrip(SubSeq(s, 1, Len(s) - 1), chars) ELSE s
\* str.strip(), str.strip(chars)
strip(s) == RStrip(LStrip(s, {" ", "\t"}), {" ", "\t"})
strip_chars(s, chars) == RStrip(LStrip(s, chars), chars)
\* str.startswith
startswith(s, p) == Len(s) >= Len(p) /\ SubSeq(s, 1, Len(p)) = p
\* s[n:]
From(s, n) == SubSeq(s, n + 1, Len(s))
\* str.split(':', 1)
split_colon(s) ==
    IF \E i \in 1..Len(s) : s[i] = ":"
    THEN LET i == CHOOSE j \in 1..Len(s) :
                      s[j] = ":" /\ \A k \in 1..(j - 1) : s[k] # ":"
         IN  <<SubSeq(s, 1, i - 1), From(s, i)>>
    ELSE <<s>>

HeadingPrefix == <<"#", " ">>
KeyPrefix == <<"-", " ", "*", "*">>
ItemPrefix == <<" ", " ", "-", " ">>
Text_basic_information == <<"b", "a", "s", "i", "c", " ", "i", "n", "f", "o", "r", "m", "a", "t", "i", "o", "n">>
Text_communication_preferences == <<"c", "o", "m", "m", "u", "n", "i", "c", "a", "t", "i", "o", "n", " ", "p", "r", "e", "f", "e", "r", "e", "n", "c", "e", "s">>
Text_working_style == <<"w", "o", "r", "k", "i", "n", "g", " ", "s", "t", "y", "l", "e">>
Text_name == <<"n", "a", "m", "e">>
Text_role == <<"r", "o", "l", "e">>
Text_background == <<"b", "a", "c", "k", "g", "r", "o", "u", "n", "d">>
Text_language_style == <<"l", "a", "n", "g", "u", "a", "g", "e", " ", "s", "t", "y", "l", "e">>
Text_problem_solving_approach == <<"p", "r", "o", "b", "l", "e", "m", "-", "s", "o", "l", "v", "i", "n", "g", " ", "a", "p", "p", "r", "o", "a", "c", "h">>
Text_interests == <<"i", "n", "t", "e", "r", "e", "s", "t", "s">>
Text_expertise == <<"e", "x", "p", "e", "r", "t", "i", "s", "e">>

\* PersonaInfo() after __post_init__: the lists are empty lists, never None
PersonaInfo ==
    [name |-> <<>>, role |-> <<>>, background |-> <<>>,
     communication_style |-> <<>>, working_style |-> <<>>,
     expertise_areas |-> <<>>, interests |-> <<>>]

\* the branch for "- **key**: value" lines
SetAttribute(persona, current_section, key, value) ==
    IF current_section = Text_basic_information
    THEN IF lower(key) = Text_name THEN [persona EXCEPT !.name = value]
         ELSE IF lower(key) = Text_role THEN [persona EXCEPT !.role = value]
         ELSE IF lower(key) = Text_background
              THEN [persona EXCEPT !.background = value]
              ELSE persona
    ELSE IF current_section = Text_communication_preferences
    THEN IF Contains(lower(key), Text_language_style)
         THEN [persona EXCEPT !.communication_style = value] ELSE persona
    ELSE IF current_section = Text_working_style
    THEN IF Contains(lower(key), Text_problem_solving_approach)
         THEN [persona EXCEPT !.working_style = value] ELSE persona
    ELSE persona

\* a list attribute of PersonaInfo is a list, not None
NotNone(list) == DOMAIN list = 1..Len(list)
\* the branch for list items, with its tests in the order of the code
AppendItem(persona, current_section, item) ==
    IF Contains(lower(current_section), Text_interests)
         \/ Contains(lower(current_section), Text_expertise)
    THEN IF item # <<>> /\ NotNone(persona.interests)
         THEN [persona EXCEPT !.interests = Append(@, item)]
         ELSE IF item # <<>> /\ NotNone(persona.expertise_areas)
              THEN [persona EXCEPT !.expertise_areas = Append(@, item)]
              ELSE persona
    ELSE persona

\* one turn of the loop over the lines; st is the persona and current_section
ParseLine(st, raw) ==
    LET line == strip(raw)
    IN  IF startswith(line, HeadingPrefix)
        THEN [st EXCEPT !.current_section = lower(From(line, 2))]
        ELSE IF startswith(line, KeyPrefix) /\ \E i \in 1..Len(line) : line[i] = ":"
        THEN LET key_value == split_colon(From(line, 4))
             IN  IF Len(key_value) = 2
                 THEN [st EXCEPT !.persona =
                          SetAttribute(@, st.current_section, strip(key_value[1]),
                                       strip_chars(strip(key_value[2]), {"[", "]"}))]
                 ELSE st
        ELSE IF startswith(line, ItemPrefix) /\ st.current_section # <<>>
        THEN [st EXCEPT !.persona =
                 AppendItem(@, st.current_section, strip(From(line, 4)))]
        ELSE st

RECURSIVE ParseLines(_, _)
ParseLines(st, lines) ==
    IF lines = <<>> THEN st
    ELSE ParseLines(ParseLine(st, Head(lines)), Tail(lines))

_parse_markdown_persona(content) ==
    ParseLines([persona |-> PersonaInfo, current_section |-> <<>>], content).persona

InitPP == pp_last = [op |-> "init", content |-> <<>>, persona |-> PersonaInfo]

\* _parse_markdown_persona on a persona file with the given lines
ParsePersona(content) ==
    pp_last' = [op |-> "parse", content |-> content,
                persona |-> _parse_markdown_persona(content)]

NextPP == \E content \in Documents : ParsePersona(content) /\ UNCHANGED notPP

(***************************************************************************)
(* VectorStore.search (utils/vector_store.py).  Distances, similarities    *)
(* and scores are in hundredths.                                           *)
(***************************************************************************)

One == 100
MaxHits == 3
Distances == {10, 50, 70, 80, 120}
MinScores == {30, 50}
Queries == {<<>>, <<" ">>, <<"q">>}

\* What collection.query(n_results = top_k) can return: at most top_k hits,
\* nearest first; a hit is the document's id and its distance.
QueryResults(top_k) ==
    {hits \in UNION {[1..n -> [id : 1..MaxHits, distance : Distances]] :
                        n \in 0..top_k} :
        /\ \A i \in 1..Len(hits) : hits[i].id = i
        /\ \A i \in 1..(Len(hits) - 1) : hits[i].distance <= hits[i + 1].distance}

\* the test that keeps a hit
KeepWrong(similarity, min_score) == similarity > min_score
Keep(similarity, min_score) == similarity >= min_score

RECURSIVE Assemble(_, _, _)
\* the loop over results['ids'][0], from hit i on
Assemble(hits, i, min_score) ==
    IF i > Len(hits) THEN <<>>
    ELSE LET distance == hits[i].distance
             similarity == One - distance
             rest == Assemble(hits, i + 1, min_score)
         IN  IF Keep(similarity, min_score)
             THEN <<[content |-> hits[i].id, metadata |-> hits[i].id,
                     similarity |-> similarity, distance |-> distance]>> \o rest
             ELSE rest

\* search(query, top_k, min_score) when collection.query returns hits
search(query, hits, min_score) ==
    IF strip(query) = <<>> THEN <<>> ELSE Assemble(hits, 1, min_score)

InitVS ==
    vs_last = [op |-> "init", query |-> <<>>, top_k |-> 1, min_score |-> 30,
               hits |-> <<>>, result |-> <<>>]

\* A call of search.  A blank query returns before anything is retrieved.
Search(query, top_k, min_score) ==
    \E hits \in (IF strip(query) = <<>> THEN {<<>>} ELSE QueryResults(top_k)) :
        vs_last' = [op |-> "search", query |-> query, top_k |-> top_k,
                    min_score |-> min_score, hits |-> hits,
                    result |-> search(query, hits, min_score)]

NextVS ==
    \E query \in Queries, top_k \in 1..MaxHits, min_score \in MinScores :
        Search(query, top_k, min_score) /\ UNCHANGED notVS

(***************************************************************************)
(* The Tools Agent (agents/tools_agent.py): the graph of                   *)
(* create_tools_agent and the loop of run_tools_agent.  The state is a     *)
(* dictionary; a key that was never set is absent (<<>>), a key that is    *)
(* set holds <<value>>.                                                    *)
(***************************************************************************)

MaxLlmCalls == 4
MaxInputs == 3

ToolCall(id, name) == [id |-> id, name |-> name]
\* the tool_calls a reply of the LLM can carry
ToolCallLists ==
    {<<>>,
     <<ToolCall("call_1", "weather_tool")>>,
     <<ToolCall("call_1", "calculator_tool"), ToolCall("call_2", "weather_tool")>>}

HumanMessage == [type |-> "human", tool_call_id |-> "", tool_calls |-> <<>>]
AIMessage(calls) == [type |-> "ai", tool_call_id |-> "", tool_calls |-> calls]
ToolMessage(id) == [type |-> "tool", tool_call_id |-> id, tool_calls |-> <<>>]

Absent == <<>>
\* AgentState(messages=[]): the class attributes are not keys of the dict
AgentState == [messages |-> <<>>, current_response |-> Absent, tool_calls |-> Absent]

\* agent_node, when llm.invoke returns response
agent_node(state, response) ==
    LET messages == Append(state.messages, response)
    IN  IF response.tool_calls # <<>>
        THEN [state EXCEPT !.messages = messages,
                           !.tool_calls = <<response.tool_calls>>]
        ELSE [state EXCEPT !.messages = messages,
                           !.current_response = <<"content">>]

\* the tool message appended for one tool call
ToolResultWrong(tool_calls, k) == ToolMessage(tool_calls[1].id)
ToolResult(tool_calls, k) == ToolMessage(tool_calls[k].id)

\* tool_node
tool_node(state) ==
    LET tool_calls == state.tool_calls[1]
    IN  [state EXCEPT
           !.messages = @ \o [k \in 1..Len(tool_calls) |-> ToolResult(tool_calls, k)],
           !.tool_calls = <<<<>>>>]

\* should_continue: state["tool_calls"] raises KeyError when the key is absent
should_continue(state) ==
    IF state.tool_calls = Absent THEN "KeyError"
    ELSE IF state.tool_calls[1] # <<>> THEN "tools" ELSE "end"

\* add_conditional_edges("agent", should_continue, {"tools": "tools", "end": END})
AfterAgent(state) ==
    CASE should_continue(state) = "tools" -> "tools"
      [] should_continue(state) = "end" -> "END"
      [] OTHER -> "raised"

TaLast(from, to, state) == [from |-> from, to |-> to, state |-> state]

InitTA ==
    /\ ta_state = AgentState
    /\ ta_node = "input"
    /\ ta_inputs = 0
    /\ ta_llm_calls = 0
    /\ ta_last = TaLast("none", "input", AgentState)

\* run_tools_agent: a line of input is appended as HumanMessage and
\* agent.invoke(state) starts at the entry point
UserInput ==
    /\ ta_node = "input"
    /\ ta_inputs < MaxInputs
    /\ ta_inputs' = ta_inputs + 1
    /\ ta_state' = [ta_state EXCEPT !.messages = Append(@, HumanMessage)]
    /\ ta_node' = "agent"
    /\ ta_last' = TaLast("input", "agent", ta_state)
    /\ UNCHANGED ta_llm_calls

\* the agent node and the conditional edge after it
AgentNode(calls) ==
    /\ ta_node = "agent"
    /\ ta_llm_calls < MaxLlmCalls
    /\ ta_llm_calls' = ta_llm_calls + 1
    /\ ta_state' = agent_node(ta_state, AIMessage(calls))
    /\ ta_node' = AfterAgent(ta_state')
    /\ ta_last' = TaLast("agent", ta_node', ta_state')
    /\ UNCHANGED ta_inputs

\* the tool node and the edge from it to the agent node
ToolNode ==
    /\ ta_node = "tools"
    /\ ta_state' = tool_node(ta_state)
    /\ ta_node' = "agent"
    /\ ta_last' = TaLast("tools", "agent", ta_state)
    /\ UNCHANGED <<ta_inputs, ta_llm_calls>>

\* agent.invoke has returned or raised: run_tools_agent prints the reply or
\* the error and reads the next line
NextInput ==
    /\ ta_node \in {"END", "raised"}
    /\ ta_node' = "input"
    /\ ta_last' = TaLast(ta_node, "input", ta_state)
    /\ UNCHANGED <<ta_state, ta_inputs, ta_llm_calls>>

NextTA ==
    \/ UserInput /\ UNCHANGED notTA
    \/ \E calls \in ToolCallLists : AgentNode(calls) /\ UNCHANGED notTA
    \/ ToolNode /\ UNCHANGED notTA
    \/ NextInput /\ UNCHANGED notTA

(***************************************************************************)
(* The Partner Agent (agents/partner_agent.py): the six-node graph of      *)
(* _build_graph and chat.  A user message is the set of the phrases it     *)
(* contains; the Chinese keywords are written in pinyin.                   *)
(***************************************************************************)

MaxChats == 2
MaxNotes == 2

\* tool_keywords and memory_keywords of _analyze_query
tool_keywords == {"jisuan", "tianqi", "jisuanqi", "calculator", "weather"}
memory_keywords == {"jide", "zhiqian", "lishi", "biji", "jilu", "huixiangqi"}

\* the phrases the messages of the model are made of
Phrases == {"nihao", "Weather", "jisuan", "jide", "biji"}
PartnerMessages == SUBSET Phrases

\* str.lower() on a phrase
PhraseLower(p) == IF p = "Weather" THEN "weather" ELSE p
query_lower(user_message) == {PhraseLower(p) : p \in user_message}

\* the fixed apology of _generate_response and the content of a reply of the LLM
GenerationApology == "generation_apology"
LlmReply == "llm_reply"

\* AgentState(user_message=...): metadata is an empty dictionary
PartnerState(user_message) ==
    [user_message |-> user_message, ai_response |-> "", relevant_notes |-> 0,
     next_action |-> <<>>, formatted_notes |-> FALSE, tool_executed |-> <<>>]

\* _analyze_query
_analyze_query(state) ==
    LET needs_tools == query_lower(state.user_message) \cap tool_keywords # {}
        needs_memory == query_lower(state.user_message) \cap memory_keywords # {}
    IN  [state EXCEPT !.next_action =
           IF needs_tools THEN <<"tools">>
           ELSE IF needs_memory THEN <<"search">> ELSE <<"respond">>]

\* _decide_next_step: metadata.get("next_action", "respond")
_decide_next_step(state) ==
    IF state.next_action = <<>> THEN "respond" ELSE state.next_action[1]

\* the outcomes of vector_store.search, llm.invoke and add_conversation_turn
SearchOutcomes == [raised : {TRUE}, notes : {0}] \cup [raised : {FALSE}, notes : 0..MaxNotes]
LlmOutcomes == {"raise", "reply"}
MemoryOutcomes == {"raise", "true", "false"}

\* _search_notes
_search_notes(state, outcome) ==
    IF outcome.raised THEN [state EXCEPT !.relevant_notes = 0]
    ELSE [state EXCEPT !.relevant_notes = outcome.notes,
                       !.formatted_notes = outcome.notes > 0]

\* _call_tools
_call_tools(state) == [state EXCEPT !.tool_executed = <<FALSE>>]

\* _generate_response
_generate_response_wrong(state, outcome) ==
    IF outcome = "raise" THEN state ELSE [state EXCEPT !.ai_response = LlmReply]
_generate_response(state, outcome) ==
    IF outcome = "raise" THEN [state EXCEPT !.ai_response = GenerationApology]
    ELSE [state EXCEPT !.ai_response = LlmReply]

\* the conditional edge after analyze_query
AfterAnalyze(state) ==
    CASE _decide_next_step(state) = "search" -> "search_notes"
      [] _decide_next_step(state) = "tools" -> "call_tools"
      [] _decide_next_step(state) = "respond" -> "generate_response"

\* the edges of _build_graph
EdgeWrong(node, state) ==
    CASE node = "load_context" -> "analyze_query"
      [] node = "analyze_query" -> AfterAnalyze(state)
      [] node = "search_notes" -> "update_memory"
      [] node = "call_tools" -> "generate_response"
      [] node = "generate_response" -> "update_memory"
      [] node = "update_memory" -> "END"
Edge(node, state) ==
    CASE node = "load_context" -> "analyze_query"
      [] node = "analyze_query" -> AfterAnalyze(state)
      [] node = "search_notes" -> "generate_response"
      [] node = "call_tools" -> "generate_response"
      [] node = "generate_response" -> "update_memory"
      [] node = "update_memory" -> "END"

InitPA ==
    /\ pa_node = "idle"
    /\ pa_state = PartnerState({})
    /\ pa_trace = <<>>
    /\ pa_failed = {}
    /\ pa_stored = <<>>
    /\ pa_result = "none"
    /\ pa_chats = 0

\* a node has run: it is recorded and the edge out of it is followed
Ran(node, state) ==
    /\ pa_state' = state
    /\ pa_trace' = Append(pa_trace, node)
    /\ pa_node' = Edge(node, state)

\* chat: the initial state, then graph.ainvoke from the entry point
Chat(user_message) ==
    /\ pa_node = "idle"
    /\ pa_chats < MaxChats
    /\ pa_chats' = pa_chats + 1
    /\ pa_state' = PartnerState(user_message)
    /\ pa_trace' = <<>>
    /\ pa_failed' = {}
    /\ pa_stored' = <<>>
    /\ pa_result' = "none"
    /\ pa_node' = "load_context"

LoadContext ==
    /\ pa_node = "load_context"
    /\ Ran("load_context", pa_state)
    /\ UNCHANGED <<pa_failed, pa_stored, pa_result, pa_chats>>

AnalyzeQuery ==
    /\ pa_node = "analyze_query"
    /\ Ran("analyze_query", _analyze_query(pa_state))
    /\ UNCHANGED <<pa_failed, pa_stored, pa_result, pa_chats>>

SearchNotes(outcome) ==
    /\ pa_node = "search_notes"
    /\ Ran("search_notes", _search_notes(pa_state, outcome))
    /\ pa_failed' = IF outcome.raised THEN pa_failed \cup {"search_notes"} ELSE pa_failed
    /\ UNCHANGED <<pa_stored, pa_result, pa_chats>>

CallTools ==
    /\ pa_node = "call_tools"
    /\ Ran("call_tools", _call_tools(pa_state))
    /\ UNCHANGED <<pa_failed, pa_stored, pa_result, pa_chats>>

GenerateResponse(outcome) ==
    /\ pa_node = "generate_response"
    /\ Ran("generate_response", _generate_response(pa_state, outcome))
    /\ pa_failed' = IF outcome = "raise" THEN pa_failed \cup {"generate_response"} ELSE pa_failed
    /\ UNCHANGED <<pa_stored, pa_result, pa_chats>>

\* _update_memory: add_conversation_turn returns True or False or raises,
\* the node returns the state in each case
UpdateMemory(outcome) ==
    /\ pa_node = "update_memory"
    /\ Ran("update_memory", pa_state)
    /\ pa_failed' = IF outcome = "true" THEN pa_failed ELSE pa_failed \cup {"update_memory"}
    /\ pa_stored' = IF outcome = "true" THEN Append(pa_stored, pa_state.ai_response) ELSE pa_stored
    /\ UNCHANGED <<pa_result, pa_chats>>

\* chat returns result.get("ai_response", ...)
ChatReturn ==
    /\ pa_node = "END"
    /\ pa_result' = pa_state.ai_response
    /\ pa_node' = "idle"
    /\ UNCHANGED <<pa_state, pa_trace, pa_failed, pa_stored, pa_chats>>

NextPA ==
    \/ \E user_message \in PartnerMessages : Chat(user_message) /\ UNCHANGED notPA
    \/ LoadContext /\ UNCHANGED notPA
    \/ AnalyzeQuery /\ UNCHANGED notPA
    \/ \E outcome \in SearchOutcomes : SearchNotes(outcome) /\ UNCHANGED notPA
    \/ CallTools /\ UNCHANGED notPA
    \/ \E outcome \in LlmOutcomes : GenerateResponse(outcome) /\ UNCHANGED notPA
    \/ \E outcome \in MemoryOutcomes : UpdateMemory(outcome) /\ UNCHANGED notPA
    \/ ChatReturn /\ UNCHANGED notPA

\* every node that is entered runs
FairPA ==
    /\ WF_paVars(LoadContext)
    /\ WF_paVars(AnalyzeQuery)
    /\ WF_paVars(\E outcome \in SearchOutcomes : SearchNotes(outcome))
    /\ WF_paVars(CallTools)
    /\ WF_paVars(\E outcome \in LlmOutcomes : GenerateResponse(outcome))
    /\ WF_paVars(\E outcome \in MemoryOutcomes : UpdateMemory(outcome))
    /\ WF_paVars(ChatReturn)

(***************************************************************************)
(* The chunk-and-index pipeline (scripts/chunk_and_index.py, main).  The   *)
(* notes directory exists or not and maps the Markdown files in it to what *)
(* they hold; the collection is the set of the chunks indexed in it.       *)
(***************************************************************************)

NoteFiles == {"a.md", "b.md"}
\* a file is blank, cannot be read, or holds text of some version
FileContents == {"blank", "unreadable", "text_1", "text_2"}
NoFiles == [file \in {} |-> "blank"]
NotesMissing == [exists |-> FALSE, files |-> NoFiles]
NotesDirs ==
    {NotesMissing} \cup
    [exists : {TRUE}, files : UNION {[files -> FileContents] : files \in SUBSET NoteFiles}]

\* chunk_note_file: no chunk for a blank file or a file that cannot be read,
\* one chunk for the text of a file
chunk_note_file(notes, file) ==
    IF notes.files[file] \in {"blank", "unreadable"} THEN {}
    ELSE {<<file, notes.files[file]>>}

\* all_chunks of main
AllChunks(notes) == UNION {chunk_note_file(notes, file) : file \in DOMAIN notes.files}

\* VectorIndexer.initialize_db: the existing "notes" collection is deleted
\* and a new, empty one is created
initialize_db(collection) == {}

\* VectorIndexer.index_chunks: every chunk is inserted
index_chunks(collection, chunks) == collection \cup chunks

\* main: the collection afterwards and the place where main returned
main(notes, collection) ==
    LET opened == initialize_db(collection)
    IN  IF ~notes.exists THEN [collection |-> opened, exit |-> "no_notes_dir"]
        ELSE IF DOMAIN notes.files = {} THEN [collection |-> opened, exit |-> "no_files"]
        ELSE IF AllChunks(notes) = {} THEN [collection |-> opened, exit |-> "no_chunks"]
        ELSE [collection |-> index_chunks(opened, AllChunks(notes)), exit |-> "indexed"]

InitCI ==
    /\ ci_notes = NotesMissing
    /\ ci_collection = {}
    /\ ci_last = [op |-> "none", exit |-> "none", before |-> {}]

\* the user changes the notes directory
EditNotes(notes) ==
    /\ notes # ci_notes
    /\ ci_notes' = notes
    /\ ci_last' = [op |-> "edit", exit |-> "none", before |-> ci_collection]
    /\ UNCHANGED ci_collection

\* one run of the script
Main ==
    /\ ci_collection' = main(ci_notes, ci_collection).collection
    /\ ci_last' = [op |-> "main", exit |-> main(ci_notes, ci_collection).exit,
                   before |-> ci_collection]
    /\ UNCHANGED ci_notes

NextCI ==
    \/ \E notes \in NotesDirs : EditNotes(notes) /\ UNCHANGED notCI
    \/ Main /\ UNCHANGED notCI

(***************************************************************************)
(* Specifications                                                          *)
(***************************************************************************)
InitRest == InitRL /\ InitWS /\ InitPY /\ InitLA /\ InitPP /\ InitVS /\ InitTA /\ InitPA /\ InitCI
Init == InitSP /\ InitMM /\ InitRest
InitOk == InitSPOk /\ InitMMOk /\ InitRest
SpecRL == Init /\ [][NextRL]_vars
SpecSP == Init /\ [][NextSP]_vars
SpecSPOk == InitOk /\ [][NextSP]_vars
SpecMM == Init /\ [][NextMM]_vars
SpecMMOk == InitOk /\ [][NextMM]_vars
SpecWS == Init /\ [][NextWS]_vars
\* the event loop runs a handler that can take a step
SpecWSLive == SpecWS /\ WF_wsVars(WsHandle) /\ WF_wsVars(WsTimeout)
SpecPY == Init /\ [][NextPY]_vars
SpecLA == Init /\ [][NextLA]_vars
SpecPP == Init /\ [][NextPP]_vars
SpecVS == Init /\ [][NextVS]_vars
SpecTA == Init /\ [][NextTA]_vars
SpecPA == Init /\ [][NextPA]_vars
SpecPALive == SpecPA /\ FairPA
SpecCI == Init /\ [][NextCI]_vars

(***************************************************************************)
(* Claims about the rate limiter                                           *)
(***************************************************************************)

\* C5: with 100 requests per 60 seconds, no key has more than 100 allowed
\* requests inside any rolling 60-second window, and a request that finds 100
\* allowed requests of its key inside the window is answered with HTTP 429.
C5_AtMostLimitPerWindow ==
    /\ \A k \in Keys : Len(window_log[k]) <= RateLimit
    /\ (rl_last.status # 0 /\ rl_last.in_window >= RateLimit) => rl_last.status = 429

\* the 101st request of a key inside the window has just been denied
C5_Witness ==
    /\ rl_last.status = 429
    /\ rl_last.in_window = RateLimit
    /\ rl_last.key = HeavyKey

\* C6: a request of a key that was denied before, made when the key has no
\* allowed request left inside the last 60 seconds, is allowed, however many
\* requests of the key were denied since its last allowed one.
C6_AllowedAfterWindow ==
    (rl_last.status # 0 /\ rl_last.denied_before >= 1 /\ rl_last.in_window = 0)
        => rl_last.status = 200

\* a request allowed after several denials, once the window had elapsed
C6_Witness ==
    /\ rl_last.status = 200
    /\ rl_last.denied_before >= 2
    /\ rl_last.in_window = 0
    /\ rl_last.at >= RateWindow

(***************************************************************************)
(* Claims about SessionPersistence                                         *)
(***************************************************************************)
MutatingOps == {"create_session", "save_message", "update_session_metadata",
                "delete_session", "cleanup_expired_sessions"}

\* the in-memory index equals the contents of sessions_index.json (a missing
\* file counts as the empty index, as _load_session_index reads it)
Mirrored ==
    /\ index_file.state # "corrupt"
    /\ _load_session_index(index_file) = session_index

\* C1: after every mutating call (create_session, save_message,
\* update_session_metadata, delete_session, cleanup_expired_sessions) has
\* returned or raised, the in-memory index equals sessions_index.json.
C1_IndexMirrorsFile == sp_last.op \in MutatingOps => Mirrored

\* C2: after each successful save_message the message_count of the index entry
\* is the number of messages in the session's file, and it is 1 after the
\* first save_message on a session that was just created.
C2_CountAfterSave ==
    (sp_last.op = "save_message" /\ sp_last.result = "ok") =>
        /\ sp_last.sid \in DOMAIN session_index
        /\ session_files[sp_last.sid].state = "ok"
        /\ session_index[sp_last.sid].message_count = Len(session_files[sp_last.sid].messages)

C2_FirstSave ==
    (/\ sp_last.op = "create_session" /\ sp_last.result = "ok"
     /\ sp_last'.op = "save_message" /\ sp_last'.result = "ok"
     /\ sp_last'.sid = sp_last.sid)
        => session_index'[sp_last.sid].message_count = 1

C2_MessageCount == []C2_CountAfterSave /\ [][C2_FirstSave]_vars

\* a second message has been saved to a session
C2_Witness ==
    /\ sp_last.op = "save_message" /\ sp_last.result = "ok"
    /\ session_index[sp_last.sid].message_count = 2

\* C3: create_session with an id of the index raises a Session error and
\* neither creates nor resets anything.
C3_CreateExisting ==
    \A sid \in SessionIds :
        (sid \in DOMAIN session_index /\ sp_last'.op = "create_session" /\ sp_last'.sid = sid)
            => /\ sp_last'.result = "SessionError"
               /\ UNCHANGED <<session_index, index_file, session_files>>

C3_DuplicateRaises == [][C3_CreateExisting]_vars

\* create_session was refused for a session that holds a message
C3_Witness ==
    /\ sp_last.op = "create_session" /\ sp_last.result = "SessionError"
    /\ sp_last.sid \in DOMAIN session_index
    /\ session_index[sp_last.sid].message_count >= 1
    /\ Len(session_files[sp_last.sid].messages) >= 1

\* C4: after delete_session was called on a session of the index, the session's
\* message file and its index entry (in memory and in sessions_index.json) are
\* removed, and a following get_session_messages or save_message with that id
\* raises a Session error.
C4_Removed ==
    (sp_last.op = "delete_session" /\ sp_last.result # "SessionError") =>
        /\ sp_last.result = "true"
        /\ sp_last.sid \notin DOMAIN session_index
        /\ sp_last.sid \notin DOMAIN _load_session_index(index_file)
        /\ session_files[sp_last.sid].state = "absent"

C4_ThenRaises ==
    (/\ sp_last.op = "delete_session" /\ sp_last.result # "SessionError"
     /\ sp_last'.op \in {"get_session_messages", "save_message"}
     /\ sp_last'.sid = sp_last.sid)
        => sp_last'.result = "SessionError"

C7_Create ==
    (mm_last'.op = "create_session" /\ current_session # NoCurrent) =>
        /\ sessions' = [id \in DOMAIN sessions \cup {current_session[1].session_id} |->
                           IF id = current_session[1].session_id THEN current_session[1]
                           ELSE sessions[id]]
        /\ Len(current_session') = 1
        /\ current_session'[1].session_id = mm_last'.sid
        /\ current_session'[1].turns = <<>>
        /\ sessions_file' = [state |-> "ok", data |-> sessions']
        /\ current_session_file'.state = "ok"
        /\ current_session_file'.data[1].session_id = mm_last'.sid

C8_Switch ==
    mm_last'.op = "switch_session" =>
        IF mm_last'.sid \in DOMAIN sessions
        THEN /\ mm_last'.result = "true"
             /\ current_session # NoCurrent =>
                   /\ current_session[1].session_id \in DOMAIN sessions'
                   /\ sessions'[current_session[1].session_id] = current_session[1]
             /\ \A id \in DOMAIN sessions :
                   (current_session = NoCurrent \/ id # current_session[1].session_id)
                       => (id \in DOMAIN sessions' /\ sessions'[id] = sessions[id])
             /\ current_session' = <<sessions'[mm_last'.sid]>>
        ELSE /\ mm_last'.result = "false"
             /\ UNCHANGED <<sessions, current_session, sessions_file, current_session_file>>

C8_SwitchArchivesAndActivates == [][C8_Switch]_vars

\* switch_session moved from a session with a turn to another one with a turn
C8_Witness ==
    /\ mm_last.op = "switch_session" /\ mm_last.result = "true"
    /\ mm_last.prev # <<>>
    /\ mm_last.prev[1] # mm_last.sid
    /\ Len(sessions[mm_last.prev[1]].turns) >= 1
    /\ current_session[1].session_id = mm_last.sid
    /\ Len(current_session[1].turns) >= 1

\* C9: clear_old_sessions(days) removes from the session map exactly the
\* sessions with last_update < now - days, keeps the others as they are, and
\* returns the number of sessions it removed.
C9_Clear ==
    mm_last'.op = "clear_old_sessions" =>
        /\ DOMAIN sessions' =
              {id \in DOMAIN sessions : ~(sessions[id].last_update < mm_now - mm_last'.days)}
        /\ \A id \in DOMAIN sessions' : sessions'[id] = sessions[id]
        /\ mm_last'.count = Cardinality(DOMAIN sessions \ DOMAIN sessions')

C9_ClearRemovesExactlyOld == [][C9_Clear]_vars

\* clear_old_sessions removed one session and kept a recent one
C9_Witness ==
    /\ mm_last.op = "clear_old_sessions"
    /\ mm_last.count = 1
    /\ mm_last.days = ClearDefaultDays
    /\ sessions # EmptyMap

\* C10: the last_update of a session, in the session map and as the current
\* session, never decreases from one MemoryManager operation to the next, and
\* add_conversation_turn sets it to the time of the appended turn.
C10_NoDecrease ==
    /\ \A id \in DOMAIN sessions \cap DOMAIN sessions' :
          sessions'[id].last_update >= sessions[id].last_update
    /\ (/\ current_session # NoCurrent /\ current_session' # NoCurrent
        /\ current_session'[1].session_id = current_session[1].session_id)
          => current_session'[1].last_update >= current_session[1].last_update
    /\ current_session' # NoCurrent =>
          \A id \in DOMAIN sessions :
              id = current_session'[1].session_id
                  => current_session'[1].last_update >= sessions[id].last_update

C10_TurnUpdates ==
    mm_last'.op = "add_conversation_turn" =>
        LET cur == current_session'[1]
        IN  /\ cur.turns # <<>>
            /\ cur.turns[Len(cur.turns)].timestamp = mm_now
            /\ cur.last_update = mm_now
            /\ sessions'[cur.session_id] = cur

LastSent == ws_sent[Len(ws_sent)]
Malformed(frame) == frame.json = "malformed"
Unrecognized(frame) == frame.json = "object" /\ frame.type \notin KnownTypes

\* C11: a text frame that is malformed JSON, or a JSON object with an
\* unrecognized type, handled while the connection is up, is answered with
\* exactly one error envelope (error invalid_json, respectively an error text
\* and received_type naming the type), and the loop goes back to receive with
\* the connection open.
C11_Handle ==
    (ws_last'.op = "handle" /\ ws_conn = "up"
     /\ (Malformed(ws_frame) \/ Unrecognized(ws_frame))) =>
        /\ Len(ws_sent') = Len(ws_sent) + 1
        /\ SubSeq(ws_sent', 1, Len(ws_sent)) = ws_sent
        /\ ws_sent'[Len(ws_sent')].type = "error"
        /\ Malformed(ws_frame) => ws_sent'[Len(ws_sent')].error = <<"invalid_json">>
        /\ Unrecognized(ws_frame) =>
              /\ ws_sent'[Len(ws_sent')].received_type = ws_frame.type
              /\ ws_sent'[Len(ws_sent')].error = <<"Unknown message type: ", ws_frame.type>>
        /\ ws_pc' = "receive"
        /\ ws_conn' = "up"

C11_ErrorEnvelope == [][C11_Handle]_vars

\* a malformed frame and then a frame of type bogus were each answered with
\* their error envelope, and the handler waits for the next frame
C11_Witness ==
    /\ ws_last.op = "handle" /\ ws_last.frame.type = "bogus"
    /\ Len(ws_sent) >= 2
    /\ LastSent.received_type = "bogus"
    /\ \E i \in 1..Len(ws_sent) : ws_sent[i].error = <<"invalid_json">>
    /\ ws_pc = "receive" /\ ws_conn = "up"

\* C12: a frame of type ping, handled while the connection is up, is answered
\* with exactly one envelope of type pong and the loop goes back to receive
\* with the connection open; and a received ping is eventually answered unless
\* the client closes the connection first.
C12_Handle ==
    (ws_last'.op = "handle" /\ ws_conn = "up"
     /\ ws_frame.json = "object" /\ ws_frame.type = "ping") =>
        /\ ws_sent' = Append(ws_sent, Pong)
        /\ ws_pc' = "receive"
        /\ ws_conn' = "up"

C12_PingPending == ws_pc = "handle" /\ ws_frame.json = "object" /\ ws_frame.type = "ping"
C12_Answered ==
    \/ ws_last.op = "handle" /\ ws_last.frame.type = "ping" /\ ws_sent # <<>> /\ LastSent = Pong
    \/ ws_conn = "closed"

C12_PingPong == [][C12_Handle]_vars /\ (C12_PingPending ~> C12_Answered)

\* two pings were each answered with a pong and the connection is open
C12_Witness ==
    /\ ws_last.op = "handle" /\ ws_last.frame.type = "ping"
    /\ Len(ws_sent) >= 2
    /\ LastSent = Pong
    /\ Cardinality({i \in 1..Len(ws_sent) : ws_sent[i] = Pong}) = 2
    /\ ws_pc = "receive" /\ ws_conn = "up"

\* C13: when wait_for(receive_text) has waited 60 seconds without a frame on
\* an open connection, the server sends one ping envelope and waits for frames
\* again with the connection open; a wait of 60 seconds ends in that timeout
\* unless a frame arrives or the client closes first.
C13_Timeout ==
    (ws_last'.op = "timeout" /\ ws_conn = "up") =>
        /\ ws_wait = ReceiveTimeout
        /\ ws_sent' = Append(ws_sent, Ping)
        /\ ws_pc' = "receive"
        /\ ws_conn' = "up"
        /\ ws_wait' = 0

C13_Overdue == ws_pc = "receive" /\ ws_wait = ReceiveTimeout /\ ws_conn = "up"
C13_Over == ws_last.op = "timeout" \/ ws_pc = "handle" \/ ws_pc = "finally" \/ ws_conn = "closed"

C13_TimeoutSendsPing == [][C13_Timeout]_vars /\ (C13_Overdue ~> C13_Over)

\* the receive timed out after 60 seconds, a ping was sent and the handler is
\* waiting again
C13_Witness ==
    /\ ws_last.op = "timeout" /\ ws_last.conn = "up"
    /\ ws_sent # <<>> /\ LastSent = Ping
    /\ ws_time = ReceiveTimeout
    /\ ws_pc = "receive" /\ ws_conn = "up" /\ ws_wait = 0

\* C20: once the handler has finished, the heartbeat task has ended (cancelled,
\* or ended by a failed send) and no envelope is sent any more.
C20_Finished == ws_pc = "done" => (hb_pc \in {"ended", "cancelled"} /\ ws_conn = "closed")
C20_Silent == ws_pc = "done" => ws_sent' = ws_sent

C20_HeartbeatCancelled == []C20_Finished /\ [][C20_Silent]_vars

\* the loop ended by an exception on an open connection after a heartbeat ping
\* had been sent, and the handler finished with the heartbeat task cancelled
C20_Witness ==
    /\ ws_pc = "done" /\ hb_pc = "cancelled"
    /\ ws_sent # <<>> /\ LastSent = Ping
    /\ ws_frames >= 1

(***************************************************************************)
(* Claims about the adapter of the partner agent and POST /api/chat/       *)
(***************************************************************************)

\* C14: whenever the real agent fails, at its initialization or while it
\* handles a chat call, the adapter's chat() answers from the mock
\* implementation: the call returns a reply of the mock agent and raises
\* nothing.
C14_FallbackAnswers ==
    (py_last.op = "chat" /\ py_last.agent # "ok")
        => /\ py_last.result.error = NoError
           /\ py_last.result.agent_type = "mock"

\* C15: a POST to /chat/ with a valid, non-empty message is answered with
\* HTTP 200 and a reply that contains the text of the message.
C15_ValidPostEchoes ==
    (py_last.op = "post" /\ ChatRequestValid(py_last.message))
        => /\ py_last.result.status = 200
           /\ Contains(py_last.result.reply, py_last.message)

\* C16: a POST to /chat/ with an empty message is answered with HTTP 422,
\* and the request neither creates a session nor stores a message.
C16_EmptyRejected ==
    [][(py_last'.op = "post" /\ py_last'.message = EmptyMessage)
          => /\ py_last'.result.status = 422
             /\ UNCHANGED <<session_index, session_files>>]_vars

(***************************************************************************)
(* Claims about DemoLauncher                                               *)
(***************************************************************************)

\* the launcher has exited after a signal: terminate() was called on every
\* child of self.processes and none of them is still running
C17_CleanExit ==
    (la_pc = "exited" /\ la_signals > 0)
        => \A k \in 1..Len(la_processes) :
              /\ la_processes[k][1] \in la_terminated
              /\ la_child[la_processes[k][1]] \in {"exited", "killed"}
\* a child is killed only after a wait of WaitTimeout seconds
C17_KillAfterWait == la_last.op = "kill" => la_last.waited = WaitTimeout
\* once the signal handler has called sys.exit, the launcher only runs the
\* cleanup of its finally clause (or of another signal) and exits
C17_Exits == la_exit_called => (la_pc \in {"finally", "exited"} \/ la_handler)
\* C17: on SIGINT or SIGTERM the launcher calls terminate() on its child
\* processes, waits up to 5 seconds for each, kills a child that has not
\* exited by then, and then exits, doing nothing else.
C17_SignalTerminatesAndExits ==
    C17_CleanExit /\ C17_KillAfterWait /\ C17_Exits

(***************************************************************************)
(* Claims about the persona parser                                         *)
(***************************************************************************)

\* the name of the section line k of a document lies in: the lower-cased
\* text of the last heading before it
C18_Section(content, k) ==
    LET headings == {j \in 1..(k - 1) : startswith(strip(content[j]), HeadingPrefix)}
    IN  IF headings = {} THEN <<>>
        ELSE LET j == CHOOSE h \in headings : \A g \in headings : g <= h
             IN  lower(From(strip(content[j]), 2))
\* the item of a nested list line ("  - item"), or nothing
C18_Item(raw) ==
    IF startswith(raw, ItemPrefix) THEN strip(From(raw, 4)) ELSE <<>>
C18_Items(list) == {list[i] : i \in 1..Len(list)}
\* C18: after a persona document is parsed, every nested list item under a
\* section whose name contains "expertise" is in expertise_areas, and every
\* one under a section whose name contains "interests" is in interests.
C18_NestedItemsParsed ==
    pp_last.op = "parse" =>
        \A k \in 1..Len(pp_last.content) :
            LET item == C18_Item(pp_last.content[k])
                section == C18_Section(pp_last.content, k)
            IN  item # <<>> =>
                  /\ Contains(section, Text_expertise)
                        => item \in C18_Items(pp_last.persona.expertise_areas)
                  /\ Contains(section, Text_interests)
                        => item \in C18_Items(pp_last.persona.interests)

(***************************************************************************)
(* Claims about VectorStore.search                                         *)
(***************************************************************************)

\* the retrieved hits whose similarity reaches min_score
C19_Kept ==
    {i \in 1..Len(vs_last.hits) :
        One - vs_last.hits[i].distance >= vs_last.min_score}
\* C19: search returns exactly the retrieved hits whose similarity, 1 minus
\* the distance, is at least min_score, in the order the store returned them:
\* there are as many results as such hits, and result j is the j-th of them.
C19_SearchFilters ==
    vs_last.op = "search" =>
        /\ Len(vs_last.result) = Cardinality(C19_Kept)
        /\ \A j \in 1..Len(vs_last.result) :
              \E i \in C19_Kept :
                 /\ Cardinality({h \in C19_Kept : h < i}) = j - 1
                 /\ vs_last.result[j].content = vs_last.hits[i].id
                 /\ vs_last.result[j].distance = vs_last.hits[i].distance
                 /\ vs_last.result[j].similarity = One - vs_last.hits[i].distance
\* a search that drops a hit, keeps two, one of them exactly at min_score
C19_Witness ==
    /\ vs_last.op = "search"
    /\ Len(vs_last.hits) = 3
    /\ Len(vs_last.result) = 2
    /\ vs_last.result[2].similarity = vs_last.min_score
    /\ vs_last.result[1].similarity > vs_last.min_score

(***************************************************************************)
(* C21, C22: the Tools Agent                                               *)
(***************************************************************************)

\* the tool calls pending in a state; none when the key was never set
PendingCalls(state) == IF state.tool_calls = Absent THEN <<>> ELSE state.tool_calls[1]

\* C21: after the agent node the workflow continues to the tool node if
\* tool_calls is non-empty and terminates otherwise; after the tool node it
\* always goes back to the agent node.
C21_Routing ==
    /\ ta_last.from = "agent" =>
         ta_last.to = IF PendingCalls(ta_last.state) # <<>> THEN "tools" ELSE "END"
    /\ ta_last.from = "tools" => ta_last.to = "agent"

\* the part of C21 the code keeps: the routing when the key tool_calls is set
C21_RoutingWhenSet ==
    /\ (ta_last.from = "agent" /\ ta_last.state.tool_calls # Absent) =>
         ta_last.to = IF PendingCalls(ta_last.state) # <<>> THEN "tools" ELSE "END"
    /\ ta_last.from = "tools" => ta_last.to = "agent"

SelectedBranch(state) ==
    IF state.next_action = <<"search">> THEN <<"search_notes">>
    ELSE IF state.next_action = <<"tools">> THEN <<"call_tools">>
    ELSE <<>>

C24_FailuresDoNotFailTheTurn ==
    (pa_node = "idle" /\ pa_chats > 0) =>
        pa_result = IF "generate_response" \in pa_failed
                    THEN GenerationApology ELSE LlmReply

\* a chat in which retrieval and the memory update failed has returned the reply
C24_Witness ==
    /\ pa_node = "idle"
    /\ pa_failed = {"search_notes", "update_memory"}
    /\ pa_result = LlmReply

(***************************************************************************)
(* C25, C26, C27, C29: the session map of the MemoryManager                *)
(***************************************************************************)

IsPrefix(s, t) == Len(s) <= Len(t) /\ SubSeq(t, 1, Len(s)) = s

\* C25: the turns recorded for a session id are never lost from the session
\* map except through clear_old_sessions: every other call, a restart
\* included, keeps each id of the map and extends or keeps its turns.
C25_TurnsNeverLost ==
    [][mm_last'.op # "clear_old_sessions" =>
         \A id \in DOMAIN sessions :
             /\ id \in DOMAIN sessions'
             /\ IsPrefix(sessions[id].turns, sessions'[id].turns)]_vars

\* the part of C25 the code keeps: a restart by itself loses nothing, and
\* nothing is lost while the current session holds the turns of its map entry
C25_NoLossWhileInStep ==
    [][(/\ mm_last'.op # "clear_old_sessions"
        /\ \/ current_session = NoCurrent
           \/ current_session[1].session_id \notin DOMAIN sessions
           \/ sessions[current_session[1].session_id] = current_session[1]) =>
         \A id \in DOMAIN sessions :
             /\ id \in DOMAIN sessions'
             /\ IsPrefix(sessions[id].turns, sessions'[id].turns)]_vars

\* list_sessions: the ids of the map (at most 20, latest update first)
list_sessions == DOMAIN sessions

\* C26: a current session is a known session; right after create_session(id)
\* the id is listed by list_sessions and switch_session(id) would return true.
C26_CurrentIsKnown ==
    /\ current_session # NoCurrent => current_session[1].session_id \in list_sessions
    /\ mm_last.op = "create_session" =>
          /\ mm_last.sid \in list_sessions
          /\ mm_last.sid \in DOMAIN sessions

\* C27: a session removed by clear_old_sessions does not come back into the
\* map through the next add_conversation_turn, create_session or
\* switch_session, unless that call is create_session for this very id.
C27_RemovedStaysRemoved ==
    [][(/\ mm_last.op = "clear_old_sessions"
        /\ mm_last'.op \in {"add_conversation_turn", "create_session", "switch_session"}) =>
         \A id \in mm_last.removed :
             id \in DOMAIN sessions' =>
                 (mm_last'.op = "create_session" /\ mm_last'.sid = id)]_vars

\* C29: add_conversation_turn returns true only if the turn it appended is
\* in the session map stored in sessions.pkl.
C29_TrueOnlyIfPersisted ==
    (mm_last.op = "add_conversation_turn" /\ mm_last.result = "true") =>
        /\ sessions_file.state = "ok"
        /\ mm_last.sid \in DOMAIN sessions_file.data
        /\ sessions_file.data[mm_last.sid].turns = current_session[1].turns

\* the part of C29 the code keeps: when no write fails the turn is in the file
C29_PersistedWhenWritesSucceed ==
    (mm_last.op = "add_conversation_turn" /\ mm_faults = MaxFaults) =>
        /\ sessions_file.state = "ok"
        /\ mm_last.sid \in DOMAIN sessions_file.data
        /\ sessions_file.data[mm_last.sid].turns = current_session[1].turns

(***************************************************************************)
(* C28: session files and the session index                                *)
(***************************************************************************)

\* C28: at all times, also after a create_session or delete_session that
\* failed part-way, a session file exists on disk only for an id of the
\* session index.
C28_FilesOnlyForIndexedSessions ==
    \A sid \in SessionIds :
        session_files[sid].state # "absent" => sid \in DOMAIN session_index

\* the part of C28 the code keeps: a file without index entry is left only
\* by a call that failed or by a restart over such a directory
C28_OrphanOnlyAfterFailure ==
    (sp_faults = MaxFaults) => C28_FilesOnlyForIndexedSessions

(***************************************************************************)
(* C30: the early exits of the chunk-and-index pipeline                    *)
(***************************************************************************)

EarlyExits == {"no_notes_dir", "no_files", "no_chunks"}

\* C30: when main exits early, because the notes directory is missing,
\* holds no Markdown file or yields no chunk, the collection indexed before
\* is left unchanged.
C30_EarlyExitKeepsCollection ==
    (ci_last.op = "main" /\ ci_last.exit \in EarlyExits) => ci_collection = ci_last.before

\* the part of C30 the code keeps: an early exit inserts nothing
C30_EarlyExitIndexesNothing ==
    (ci_last.op = "main" /\ ci_last.exit \in EarlyExits) => ci_collection = {}

====
